---- MODULE Spec2Model ----
(***************************************************************************)
(* vscode-makelist-helper: the manifest text-patching engine               *)
(* (cmakeHelpers.ts) and the add command's block-creation prelude.         *)
(*                                                                         *)
(* A manifest's text is a sequence of one-character strings.  The two      *)
(* regular expressions of the helpers, String.prototype.split/trim/        *)
(* replace/slice and path.extname are written out as operators that        *)
(* compute what the JavaScript computes on such sequences.                 *)
(***************************************************************************)
EXTENDS Naturals, Sequences, FiniteSets

\* ------------------------------------------------------------------ text

\* The characters the regular expressions' \s and String.prototype.trim
\* treat as white space, as far as the modelled alphabet has them.
IsWs(c) == c \in {" ", "\t", "\n", "\r"}

\* s.startsWith(lit, i) with 1-based i.
StartsWithAt(s, i, lit) ==
    /\ i >= 1
    /\ i + Len(lit) - 1 <= Len(s)
    /\ SubSeq(s, i, i + Len(lit) - 1) = lit

\* s.slice(i-1): the text from the 1-based position i to the end.
From(s, i) == SubSeq(s, i, Len(s))

\* s.slice(0, i-1): the text before the 1-based position i.
Before(s, i) == SubSeq(s, 1, i - 1)

\* The least element of a non-empty set of positions.
Min(S) == CHOOSE i \in S : \A j \in S : i <= j

\* The greatest element of a non-empty set of positions.
Max(S) == CHOOSE i \in S : \A j \in S : j <= i

\* s.indexOf(pat, i-1) as a 1-based position, 0 when pat does not occur at or
\* after position i.
IndexFrom(s, pat, i) ==
    LET hits == {j \in i..(Len(s) + 1) : StartsWithAt(s, j, pat)}
    IN IF hits = {} THEN 0 ELSE Min(hits)

\* s.indexOf(pat)
IndexOf(s, pat) == IndexFrom(s, pat, 1)

\* The greedy \s* of createSetRegex: the first position at or after j that
\* holds no white space (Len(s)+1 when the text ends first).
SkipWs(s, j) == Min({k \in j..(Len(s) + 1) : k > Len(s) \/ ~IsWs(s[k])})

\* The lazy ([\s\S]*?)\) of both block regexes: the position of the first
\* ")" at or after k, 0 when there is none.
FirstClose(s, k) ==
    LET hits == {p \in k..Len(s) : s[p] = ")"}
    IN IF hits = {} THEN 0 ELSE Min(hits)

\* String.prototype.trim: what lies between the first and the last character
\* that is no white space.
Trim(s) ==
    LET solid == {i \in 1..Len(s) : ~IsWs(s[i])}
    IN IF solid = {} THEN <<>> ELSE SubSeq(s, Min(solid), Max(solid))

\* String.prototype.split('\n'): the list of lines, "\n" excluded.
RECURSIVE SplitLines(_)
SplitLines(s) ==
    LET n == IndexOf(s, <<"\n">>)
    IN IF n = 0 THEN <<s>>
       ELSE <<Before(s, n)>> \o SplitLines(From(s, n + 1))

\* Array.prototype.join(sep) over a list of texts.
RECURSIVE Join(_, _)
Join(lines, sep) ==
    IF lines = <<>> THEN <<>>
    ELSE IF Len(lines) = 1 THEN lines[1]
    ELSE lines[1] \o sep \o Join(Tail(lines), sep)

\* Array.prototype.includes.
Includes(lines, e) == \E i \in 1..Len(lines) : lines[i] = e

\* currentBlock.split('\n').map(line => line.trim()).filter(line => line.length > 0)
NonEmpty(l) == l # <<>>

RECURSIVE MapTrim(_)
MapTrim(lines) ==
    IF lines = <<>> THEN <<>> ELSE <<Trim(Head(lines))>> \o MapTrim(Tail(lines))

NormalizeBlock(inner) == SelectSeq(MapTrim(SplitLines(inner)), NonEmpty)

\* GetSubstitution of String.prototype.replace(string, string): in the
\* replacement text "$$" stands for "$", "$&" for the matched text, "$" and a
\* grave accent for the text before the match and "$'" for the text after
\* it; with a string pattern there are no captures, so every other "$" is
\* literal.  Grave names the grave accent character (U+0060).
Grave == "U+0060"

\* Whether a replacement pattern starts at position i of repl.
IsPattern(repl, i) ==
    /\ repl[i] = "$"
    /\ i < Len(repl)
    /\ repl[i + 1] \in {"$", "&", Grave, "'"}

\* The first replacement pattern of repl, 0 when it has none.  In "$$&" the
\* pattern is "$$", and "&" is literal: a pattern never starts on the second
\* character of the pattern before it.
FirstPattern(repl) ==
    LET hits == {i \in 1..Len(repl) : IsPattern(repl, i)}
    IN IF hits = {} THEN 0 ELSE Min(hits)

RECURSIVE GetSubstitution(_, _, _, _)
GetSubstitution(matched, before, after, repl) ==
    LET i == FirstPattern(repl)
    IN IF i = 0 THEN repl
       ELSE Before(repl, i)
               \o (CASE repl[i + 1] = "$" -> <<"$">>
                     [] repl[i + 1] = "&" -> matched
                     [] repl[i + 1] = Grave -> before
                     [] OTHER -> after)
               \o GetSubstitution(matched, before, after, From(repl, i + 2))

\* content.replace(pattern, replacement) with a string pattern: the first
\* occurrence of the pattern is replaced by the substituted replacement.
Replace(content, pattern, replacement) ==
    LET p == IndexOf(content, pattern)
    IN IF p = 0 THEN content
       ELSE LET before == Before(content, p)
                after == From(content, p + Len(pattern))
            IN before \o GetSubstitution(pattern, before, after, replacement) \o after

\* ------------------------------------------------------------ literals

SET_OPEN == <<"s", "e", "t", "(">>

PROJECT_OPEN == <<"p", "r", "o", "j", "e", "c", "t", "(">>

INCLUDE_OPEN ==
    <<"i", "n", "c", "l", "u", "d", "e", "_",
      "d", "i", "r", "e", "c", "t", "o", "r", "i", "e", "s", "(">>

\* The "\n    " that separates the entries of a rebuilt block.
INDENT == <<"\n", " ", " ", " ", " ">>

\* The "${CMAKE_CURRENT_SOURCE_DIR}/" that starts an include entry.
SOURCE_DIR ==
    <<"$", "{", "C", "M", "A", "K", "E", "_", "C", "U", "R", "R", "E", "N", "T", "_",
      "S", "O", "U", "R", "C", "E", "_", "D", "I", "R", "}", "/">>

SOURCES == <<"S", "O", "U", "R", "C", "E", "S">>

HEADERS == <<"H", "E", "A", "D", "E", "R", "S">>

\* ---------------------------------------------------------------- paths

\* The setFileMapping configuration as package.json declares its default:
\* extension (lower case, with its dot) to the name of the set() variable.
setFileMapping ==
    { <<(<<".", "h">>), HEADERS>>,
      <<(<<".", "h", "p", "p">>), HEADERS>>,
      <<(<<".", "h", "x", "x">>), HEADERS>>,
      <<(<<".", "c", "p", "p">>), SOURCES>>,
      <<(<<".", "c", "x", "x">>), SOURCES>>,
      <<(<<".", "c", "c">>), SOURCES>> }

\* mapping[ext] !== undefined
IsMapped(ext) == \E m \in setFileMapping : m[1] = ext

\* mapping[ext]
MappingAt(ext) == (CHOOSE m \in setFileMapping : m[1] = ext)[2]

\* The position of the last occurrence of character c in s, 0 when absent.
LastIndexOfChar(s, c) ==
    LET hits == {i \in 1..Len(s) : s[i] = c}
    IN IF hits = {} THEN 0 ELSE Max(hits)

\* String.prototype.toLowerCase on the letters file names are built from.
LowerChar(c) ==
    CASE c = "H" -> "h"
      [] c = "C" -> "c"
      [] c = "P" -> "p"
      [] OTHER -> c

ToLowerCase(s) == [i \in 1..Len(s) |-> LowerChar(s[i])]

\* path.extname: from the last "." of the last path segment to the end,
\* empty when that segment has no "." or only a leading one.
ExtName(p) ==
    LET slash == LastIndexOfChar(p, "/")
        back == LastIndexOfChar(p, "\\")
        base == (IF slash > back THEN slash ELSE back) + 1
        dot == LastIndexOfChar(p, ".")
    IN IF dot > base THEN From(p, dot) ELSE <<>>

\* .replace(/\\/g, '/')
ToSlash(p) == [i \in 1..Len(p) |-> IF p[i] = "\\" THEN "/" ELSE p[i]]

\* A file or directory is given by path.relative(path.dirname(cmakePath), it),
\* the native path from the manifest's directory.
\* const quotedRelativePath = `"${relativePath}"`
QuotedRelativePath(f) == <<"\"">> \o ToSlash(f) \o <<"\"">>

\* const includeEntry = `\${CMAKE_CURRENT_SOURCE_DIR}/${relativePath}`
IncludeEntry(d) == SOURCE_DIR \o ToSlash(d)

\* getTargetVariable: whether it returns (TRUE) or throws the configuration
\* error (FALSE), and the name it returns.
HasTargetVariable(f) == IsMapped(ToLowerCase(ExtName(f)))

GetTargetVariable(f) == MappingAt(ToLowerCase(ExtName(f)))

\* --------------------------------------------------------------- regexes

NoMatch == [index |-> 0, inner |-> 0, close |-> 0]

\* The head  set\(\s*NAME(?:[ \t]|\r?\n)  of createSetRegex tried at position
\* i: the position behind it, 0 when it does not match there.  NAME starts
\* with a letter, so the greedy \s* ends exactly where the white space ends.
SetHeadEnd(s, i, name) ==
    IF ~StartsWithAt(s, i, SET_OPEN) THEN 0
    ELSE LET j == SkipWs(s, i + Len(SET_OPEN))
             k == j + Len(name)
         IN IF ~StartsWithAt(s, j, name) THEN 0
            ELSE IF k <= Len(s) /\ s[k] \in {" ", "\t", "\n"} THEN k + 1
            ELSE IF StartsWithAt(s, k, <<"\r", "\n">>) THEN k + 2
            ELSE 0

\* createSetRegex(name) tried at the positions i, i+1, ...: the first one at
\* which it matches, 0 when there is none.
SetMatchFrom(s, i, name) ==
    LET hits == {j \in i..Len(s) :
                    /\ SetHeadEnd(s, j, name) > 0
                    /\ FirstClose(s, SetHeadEnd(s, j, name)) > 0}
    IN IF hits = {} THEN 0 ELSE Min(hits)

\* A variant of the match that takes the last place at which the expression
\* matches, not the first.
MatchSetLast(s, name) ==
    LET hits == {j \in 1..Len(s) :
                    /\ SetHeadEnd(s, j, name) > 0
                    /\ FirstClose(s, SetHeadEnd(s, j, name)) > 0}
        i == IF hits = {} THEN 0 ELSE Max(hits)
        k == SetHeadEnd(s, i, name)
    IN IF i = 0 THEN NoMatch
       ELSE [index |-> i, inner |-> k, close |-> FirstClose(s, k)]

\* createSetRegex(name) applied by content.match: the leftmost match, as the
\* positions of its first character, of the first character of group 1 and
\* of the closing ")".
MatchSet(s, name) ==
    LET i == SetMatchFrom(s, 1, name)
        k == SetHeadEnd(s, i, name)
    IN IF i = 0 THEN NoMatch
       ELSE [index |-> i, inner |-> k, close |-> FirstClose(s, k)]

\* createIncludeDirectoriesRegex() applied by content.match: the lazy group
\* ends at the first ")" behind the opening.
MatchInclude(s) ==
    LET i == IndexOf(s, INCLUDE_OPEN)
        k == i + Len(INCLUDE_OPEN)
    IN IF i = 0 \/ FirstClose(s, k) = 0 THEN NoMatch
       ELSE [index |-> i, inner |-> k, close |-> FirstClose(s, k)]

\* match[0] and match[1]
Matched(s, m) == SubSeq(s, m.index, m.close)

Group1(s, m) == SubSeq(s, m.inner, m.close - 1)

\* open[^)]+\) tried at position i: the position of its closing ")", 0 when
\* it does not match there ([^)]+ needs at least one character).
LooseEnd(s, i, open) ==
    IF ~StartsWithAt(s, i, open) THEN 0
    ELSE LET p == FirstClose(s, i + Len(open))
         IN IF p > i + Len(open) THEN p ELSE 0

\* The first match of open[^)]+\) at or after position pos: its start, 0 when
\* there is none.
LooseNext(s, pos, open) ==
    LET hits == {i \in pos..Len(s) : LooseEnd(s, i, open) > 0}
    IN IF hits = {} THEN 0 ELSE Min(hits)

\* Array.from(content.matchAll(/set\([^)]+\)/g)), its last element: the
\* position of the last match's closing ")", 0 when nothing matches.  Each
\* search resumes behind the previous match.
RECURSIVE LastSetMatchEnd(_, _, _)
LastSetMatchEnd(s, pos, found) ==
    LET i == LooseNext(s, pos, SET_OPEN)
    IN IF i = 0 THEN found
       ELSE LastSetMatchEnd(s, LooseEnd(s, i, SET_OPEN) + 1, LooseEnd(s, i, SET_OPEN))

\* content.match(/project\([^)]+\)/): the position of the closing ")" of the
\* first match, 0 when nothing matches.
ProjectMatchEnd(s) ==
    LET i == LooseNext(s, 1, PROJECT_OPEN)
    IN IF i = 0 THEN 0 ELSE LooseEnd(s, i, PROJECT_OPEN)

\* ------------------------------------------------------- cmakeHelpers.ts

\* What one helper call leaves behind: its return value, whether it threw,
\* whether it called fs.writeFileSync, and the file's text afterwards.
Outcome(ret, threw, wrote, text) ==
    [ret |-> ret, threw |-> threw, wrote |-> wrote, content |-> text]

\* The entries of the block createSetRegex(name) locates in s (empty when it
\* locates none).
BlockEntries(s, name) ==
    LET m == MatchSet(s, name)
    IN IF m.index = 0 THEN <<>> ELSE NormalizeBlock(Group1(s, m))

\* addToCMake, the block it builds from the entries found and the new one.
AddNewBlock(name, normalizedBlock, quoted) ==
    IF Trim(Join(normalizedBlock, <<>>)) = <<>>
    THEN SET_OPEN \o name \o INDENT \o quoted \o <<"\n", ")">>
    ELSE SET_OPEN \o name \o INDENT \o Join(normalizedBlock, INDENT)
            \o INDENT \o quoted \o <<"\n", ")">>

\* A variant of addToCMake that writes a block of its own at the top of the
\* manifest when it locates none, as the addToCMake of the first extension.ts
\* did once its prompt returned 'Create'.
AddToCMakeCreatesInline(c, f) ==
    IF ~HasTargetVariable(f) THEN Outcome(FALSE, TRUE, FALSE, c)
    ELSE LET quoted == QuotedRelativePath(f)
             name == GetTargetVariable(f)
             m == MatchSet(c, name)
             normalizedBlock == NormalizeBlock(Group1(c, m))
         IN IF m.index = 0
            THEN Outcome(TRUE, FALSE, TRUE,
                         SET_OPEN \o name \o INDENT \o quoted
                            \o <<"\n", ")", "\n", "\n">> \o c)
            ELSE IF Includes(normalizedBlock, quoted) THEN Outcome(FALSE, FALSE, FALSE, c)
            ELSE Outcome(TRUE, FALSE, TRUE,
                         Replace(c, Matched(c, m), AddNewBlock(name, normalizedBlock, quoted)))

\* addToCMake(cmakePath, filePath) on a manifest whose text is c.
AddToCMakeFn(c, f) ==
    IF ~HasTargetVariable(f) THEN Outcome(FALSE, TRUE, FALSE, c)
    ELSE LET quoted == QuotedRelativePath(f)
             name == GetTargetVariable(f)
             m == MatchSet(c, name)
             normalizedBlock == NormalizeBlock(Group1(c, m))
         IN IF m.index = 0 THEN Outcome(FALSE, FALSE, FALSE, c)
            ELSE IF Includes(normalizedBlock, quoted) THEN Outcome(FALSE, FALSE, FALSE, c)
            ELSE Outcome(TRUE, FALSE, TRUE,
                         Replace(c, Matched(c, m), AddNewBlock(name, normalizedBlock, quoted)))

\* normalizedBlock.filter(line => line !== quotedRelativePath)
FilterOut(lines, e) == LET Keep(l) == l # e IN SelectSeq(lines, Keep)

\* A variant of removeFromCMake's rebuilt block that leaves nothing where the
\* last entry went.
RemoveNewBlockDropsEmpty(name, updatedBlock) ==
    IF Len(updatedBlock) = 0
    THEN <<>>
    ELSE SET_OPEN \o name \o INDENT \o Join(updatedBlock, INDENT) \o <<"\n", ")">>

\* removeFromCMake, the block it builds from the entries that stay.
RemoveNewBlock(name, updatedBlock) ==
    IF Len(updatedBlock) = 0
    THEN SET_OPEN \o name \o <<"\n", ")">>
    ELSE SET_OPEN \o name \o INDENT \o Join(updatedBlock, INDENT) \o <<"\n", ")">>

\* A variant of removeFromCMake without the early return for an entry the
\* block does not hold: it rebuilds and writes the block all the same.
RemoveFromCMakeAlwaysWrites(c, f) ==
    IF ~HasTargetVariable(f) THEN Outcome(FALSE, TRUE, FALSE, c)
    ELSE LET quoted == QuotedRelativePath(f)
             name == GetTargetVariable(f)
             m == MatchSet(c, name)
             normalizedBlock == NormalizeBlock(Group1(c, m))
         IN IF m.index = 0 THEN Outcome(FALSE, FALSE, FALSE, c)
            ELSE Outcome(Includes(normalizedBlock, quoted), FALSE, TRUE,
                         Replace(c, Matched(c, m),
                                 RemoveNewBlock(name, FilterOut(normalizedBlock, quoted))))

\* removeFromCMake(cmakePath, filePath) on a manifest whose text is c.
RemoveFromCMakeFn(c, f) ==
    IF ~HasTargetVariable(f) THEN Outcome(FALSE, TRUE, FALSE, c)
    ELSE LET quoted == QuotedRelativePath(f)
             name == GetTargetVariable(f)
             m == MatchSet(c, name)
             normalizedBlock == NormalizeBlock(Group1(c, m))
         IN IF m.index = 0 THEN Outcome(FALSE, FALSE, FALSE, c)
            ELSE IF ~Includes(normalizedBlock, quoted) THEN Outcome(FALSE, FALSE, FALSE, c)
            ELSE Outcome(TRUE, FALSE, TRUE,
                         Replace(c, Matched(c, m),
                                 RemoveNewBlock(name, FilterOut(normalizedBlock, quoted))))

\* addIncludeDirectory, the block it builds when one exists already.
IncludeAddNewBlock(normalizedBlock, includeEntry) ==
    IF Trim(Join(normalizedBlock, <<>>)) = <<>>
    THEN INCLUDE_OPEN \o INDENT \o includeEntry \o <<"\n", ")">>
    ELSE INCLUDE_OPEN \o INDENT \o Join(normalizedBlock, INDENT)
            \o INDENT \o includeEntry \o <<"\n", ")">>

\* addIncludeDirectory, the text it writes when no block exists: the new
\* block goes behind project(...) when there is one, else to the top.
IncludeCreate(c, includeEntry) ==
    LET projectEnd == ProjectMatchEnd(c)
    IN IF projectEnd > 0
       THEN Before(c, projectEnd + 1)
               \o <<"\n", "\n">> \o INCLUDE_OPEN \o INDENT \o includeEntry \o <<"\n", ")">>
               \o From(c, projectEnd + 1)
       ELSE INCLUDE_OPEN \o INDENT \o includeEntry \o <<"\n", ")", "\n", "\n">> \o c

\* addIncludeDirectory(cmakePath, dirPath) on a manifest whose text is c.
AddIncludeDirectoryFn(c, d) ==
    LET includeEntry == IncludeEntry(d)
        m == MatchInclude(c)
        normalizedBlock == NormalizeBlock(Group1(c, m))
    IN IF m.index = 0 THEN Outcome(TRUE, FALSE, TRUE, IncludeCreate(c, includeEntry))
       ELSE IF Includes(normalizedBlock, includeEntry) THEN Outcome(FALSE, FALSE, FALSE, c)
       ELSE Outcome(TRUE, FALSE, TRUE,
                    Replace(c, Matched(c, m), IncludeAddNewBlock(normalizedBlock, includeEntry)))

\* removeIncludeDirectory, the block it builds from the entries that stay.
IncludeRemoveNewBlock(updatedBlock) ==
    IF Len(updatedBlock) = 0
    THEN INCLUDE_OPEN \o <<"\n", ")">>
    ELSE INCLUDE_OPEN \o INDENT \o Join(updatedBlock, INDENT) \o <<"\n", ")">>

\* removeIncludeDirectory(cmakePath, dirPath) on a manifest whose text is c.
RemoveIncludeDirectoryFn(c, d) ==
    LET includeEntry == IncludeEntry(d)
        m == MatchInclude(c)
        normalizedBlock == NormalizeBlock(Group1(c, m))
    IN IF m.index = 0 THEN Outcome(FALSE, FALSE, FALSE, c)
       ELSE IF ~Includes(normalizedBlock, includeEntry) THEN Outcome(FALSE, FALSE, FALSE, c)
       ELSE Outcome(TRUE, FALSE, TRUE,
                    Replace(c, Matched(c, m),
                            IncludeRemoveNewBlock(FilterOut(normalizedBlock, includeEntry))))

\* checkMissingSetBlocks(cmakePath, files, mapping): the names of the set()
\* blocks the files need and the manifest lacks, as the Set holds them, each
\* once and in the order of first insertion.
RECURSIVE CheckMissingSetBlocks(_, _, _)
CheckMissingSetBlocks(c, files, missing) ==
    IF files = <<>> THEN missing
    ELSE LET name == GetTargetVariable(Head(files))
         IN CheckMissingSetBlocks(c, Tail(files),
                IF MatchSet(c, name).index = 0 /\ ~Includes(missing, name)
                THEN Append(missing, name) ELSE missing)

\* A variant of the insertion place that looks for project(...) before it
\* looks for the last set(...).
InsertPositionProjectFirst(c) ==
    IF ProjectMatchEnd(c) > 0 THEN ProjectMatchEnd(c) + 1
    ELSE IF LastSetMatchEnd(c, 1, 0) > 0 THEN LastSetMatchEnd(c, 1, 0) + 1
    ELSE 1

\* createMissingSetBlocks, the place it inserts at: 1-based, the new text
\* goes before the character at this position.
InsertPosition(c) ==
    IF LastSetMatchEnd(c, 1, 0) > 0 THEN LastSetMatchEnd(c, 1, 0) + 1
    ELSE IF ProjectMatchEnd(c) > 0 THEN ProjectMatchEnd(c) + 1
    ELSE 1

\* createMissingSetBlocks, prefix and suffix of the inserted text.
InsertPrefix(c) ==
    IF LastSetMatchEnd(c, 1, 0) > 0 \/ ProjectMatchEnd(c) > 0 THEN <<"\n", "\n">> ELSE <<>>

InsertSuffix(c) ==
    IF LastSetMatchEnd(c, 1, 0) > 0 \/ ProjectMatchEnd(c) > 0 THEN <<>> ELSE <<"\n", "\n">>

\* Array.from(missingBlocks).map(block => `set(${block}\n)\n`).join('\n')
RECURSIVE NewBlocks(_)
NewBlocks(missing) ==
    IF missing = <<>> THEN <<>>
    ELSE SET_OPEN \o Head(missing) \o <<"\n", ")", "\n">>
            \o (IF Len(missing) > 1 THEN <<"\n">> ELSE <<>>)
            \o NewBlocks(Tail(missing))

\* A variant of createMissingSetBlocks that writes the block of the first
\* missing name only.
CreateFirstMissingBlock(c, missing) ==
    Before(c, InsertPosition(c))
        \o InsertPrefix(c) \o NewBlocks(<<Head(missing)>>) \o InsertSuffix(c)
        \o From(c, InsertPosition(c))

\* createMissingSetBlocks(cmakePath, missingBlocks) on a manifest whose text
\* is c: the text it writes.
CreateMissingSetBlocksFn(c, missing) ==
    Before(c, InsertPosition(c))
        \o InsertPrefix(c) \o NewBlocks(missing) \o InsertSuffix(c)
        \o From(c, InsertPosition(c))

\* --------------------------------------------------------------- inputs

\* The empty shell, as removeFromCMake and createMissingSetBlocks leave it.
B_EMPTY ==
    <<"s", "e", "t", "(", "S", "O", "U", "R", "C", "E", "S", "\n", ")">>

\* One entry, laid out as addToCMake lays it out.
B_ONE ==
    <<"s", "e", "t", "(", "S", "O", "U", "R", "C", "E", "S", "\n", " ", " ", " ",
      " ", "\"", "a", ".", "c", "p", "p", "\"", "\n", ")">>

\* Hand-written: space after the bracket, first entry on the head line, CRLF, a blank line, a tab.
B_HAND ==
    <<"s", "e", "t", "(", " ", "S", "O", "U", "R", "C", "E", "S", " ", "\"", "a",
      ".", "c", "p", "p", "\"", "\r", "\n", "\r", "\n", "\t", "\"", "d", "/", "b",
      ".", "c", "p", "p", "\"", " ", ")">>

\* An entry that holds a dollar sign followed by an ampersand.
B_DOLLAR ==
    <<"s", "e", "t", "(", "S", "O", "U", "R", "C", "E", "S", "\n", "\"", "$", "&",
      "\"", "\n", "\"", "a", ".", "c", "p", "p", "\"", "\n", ")">>

\* The name directly followed by the bracket: createSetRegex does not match it.
B_BARE ==
    <<"s", "e", "t", "(", "S", "O", "U", "R", "C", "E", "S", ")">>

\* A block whose closing bracket is missing.
B_OPEN ==
    <<"s", "e", "t", "(", "S", "O", "U", "R", "C", "E", "S", "\n", "\"", "a", ".",
      "c", "p", "p", "\"", "\n">>

\* The same entry twice.
B_TWICE ==
    <<"s", "e", "t", "(", "S", "O", "U", "R", "C", "E", "S", "\n", "\"", "a", ".",
      "c", "p", "p", "\"", "\n", "\"", "a", ".", "c", "p", "p", "\"", "\n", ")">>

\* A block for SOURCES that lists the file of the subdirectory.
B_SUB ==
    <<"s", "e", "t", "(", "S", "O", "U", "R", "C", "E", "S", "\n", " ", " ", " ",
      " ", "\"", "d", "/", "b", ".", "c", "p", "p", "\"", "\n", ")">>

\* A block for HEADERS.
B_HDR ==
    <<"s", "e", "t", "(", "H", "E", "A", "D", "E", "R", "S", "\n", " ", " ", " ",
      " ", "\"", "x", ".", "H", "\"", "\n", ")">>

\* HEADERS with no white space behind the name: not matched either.
B_HDR_BARE ==
    <<"s", "e", "t", "(", "H", "E", "A", "D", "E", "R", "S", ")">>

\* An include block with one entry.
B_INC ==
    <<"i", "n", "c", "l", "u", "d", "e", "_", "d", "i", "r", "e", "c", "t", "o", "r",
      "i", "e", "s", "(", "\n", " ", " ", " ", " ", "$", "{", "C", "M", "A", "K",
      "E", "_", "C", "U", "R", "R", "E", "N", "T", "_", "S", "O", "U", "R", "C", "E",
      "_", "D", "I", "R", "}", "/", "i", "n", "c", "\n", ")">>

\* An include block with nothing in it.
B_INC_EMPTY ==
    <<"i", "n", "c", "l", "u", "d", "e", "_", "d", "i", "r", "e", "c", "t", "o", "r",
      "i", "e", "s", "(", ")">>

\* A project declaration and its line end.
PROJECT ==
    <<"p", "r", "o", "j", "e", "c", "t", "(", "P", ")", "\n">>

\* A source file next to the manifest.
F_A ==
    <<"a", ".", "c", "p", "p">>

\* A source file in a subdirectory, with the native separator of win32.
F_B ==
    <<"d", "\\", "b", ".", "c", "p", "p">>

\* A header whose extension is written in upper case.
F_X ==
    <<"x", ".", "H">>

\* A source file whose name holds a closing bracket.
F_P ==
    <<"p", ")", ".", "c", "p", "p">>

\* A directory next to the manifest.
D_INC ==
    <<"i", "n", "c">>

\* A directory below a subdirectory.
D_SUB ==
    <<"d", "\\", "e">>

\* A directory whose name ends in a closing bracket.
D_P ==
    <<"p", ")">>

Files == {F_A, F_B, F_X, F_P}

Dirs == {D_INC, D_SUB, D_P}

\* The selections the add command is run on (mappedFiles).
Selections == {<<F_P>>, <<F_X>>, <<F_X, F_B, F_A>>}

\* The blocks a manifest holds, top to bottom.
Layouts ==
    {<<>>, <<B_EMPTY>>, <<B_ONE>>, <<B_HAND>>, <<B_DOLLAR>>, <<B_BARE>>, <<B_OPEN>>,
     <<B_TWICE>>, <<B_HDR>>, <<B_HDR_BARE>>, <<B_INC>>, <<B_INC_EMPTY>>,
     <<B_ONE, B_HDR>>, <<B_ONE, B_SUB>>, <<B_OPEN, B_HDR>>, <<B_HDR_BARE, B_ONE>>,
     <<B_INC, B_ONE>>, <<B_HAND, B_INC>>, <<B_BARE, B_HDR>>, <<B_DOLLAR, B_SUB>>}

\* Each block on lines of its own.
RECURSIVE Lines(_)
Lines(blocks) ==
    IF blocks = <<>> THEN <<>> ELSE Head(blocks) \o <<"\n">> \o Lines(Tail(blocks))

\* The manifests a run starts from: an optional project declaration and
\* the blocks of a layout.
Manifests == {pre \o Lines(blocks) : pre \in {<<>>, PROJECT}, blocks \in Layouts}

\* How many helper calls and prompts a run follows.
MaxSteps == 3

\* ---------------------------------------------------------- state machine

\* One step is one awaited helper call, or the add command's prelude up to
\* its prompt, or the prompt's answer.  The helpers read and write the file
\* with the synchronous fs calls, so a call is atomic; the commands await
\* each call, so calls of other command invocations run in between.
VARIABLES
    content,      \* the text of the manifest file on disk
    pc,           \* "idle", or "confirm" while the add command shows 'Create'
    mappedFiles,  \* the add command's selection while it waits at the prompt
    missing,      \* the add command's missingSetBlocks, in insertion order
    last,         \* the latest call: what it was, on what, what it returned,
                  \* whether it wrote, and the manifest text it started from
    prev,         \* the call before the latest one
    steps,        \* calls and prompts so far
    disk,         \* findCMakeLists: its start path, the workspace folders
                  \* and the files that exist
    found,        \* findCMakeLists: whether it has run and what it returned
    settings,     \* the workspace values of setFileMapping and
                  \* supportedExtensions in the settings store
    cfgLast,      \* the latest step that read or wrote the settings
    cfgSteps,     \* such steps so far
    handlers,     \* the command and watcher handlers under way: where each
                  \* stands, its local variables, what it has done
    live,         \* the entries added and not removed since
    deletedFiles, \* the watcher's Set of deleted paths, in insertion order
    deleteTimer,  \* the watcher's timer: whether it runs and for how long
    watch,        \* what the watcher did last, the time since the last
                  \* delete event, the events since the last prompt, the
                  \* files of the last prompt
    docs,         \* the text of each open cmake document
    provider,     \* the link provider's fields, and whether its
                  \* registration is disposed
    requests      \* the provideDocumentLinks calls: where each stands, its
                  \* locals, its token, what its promise resolved to

\* The variables of the helpers and the add command's prelude, and those of
\* the manifest locator.
coreVars == <<content, pc, mappedFiles, missing, last, prev, steps>>

findVars == <<disk, found>>

cfgVars == <<settings, cfgLast, cfgSteps>>

cmdVars == <<handlers, live>>

watchVars == <<deletedFiles, deleteTimer, watch>>

linkVars == <<docs, provider, requests>>

vars == <<coreVars, findVars, cfgVars, cmdVars, watchVars, linkVars>>

\* What the helper calls leave alone.
auxVars == <<findVars, cfgVars, cmdVars, watchVars, linkVars>>

\* The locator before any walk.
NoDisk == [command |-> "none", startPath |-> <<>>, folders |-> {}, files |-> {}]

NotFound ==
    [done |-> FALSE, cmakeFiles |-> <<>>, inspected |-> {}, stage |-> "start",
     items |-> <<>>, message |-> "", target |-> <<>>, walk |-> <<>>]

FindIdle == disk = NoDisk /\ found = NotFound

\* A value the settings store does not hold, and a value written as null.
Absent == [kind |-> "undefined"]

Null == [kind |-> "null"]

\* The settings before any step: nothing stored for the workspace.
NoCfgStep == [op |-> "none"]

CfgIdle ==
    /\ settings = [mapping |-> Absent, extensions |-> Absent]
    /\ cfgLast = NoCfgStep
    /\ cfgSteps = 0

\* The handlers that run at a time: invocations of the commands and of the
\* deletion watcher's handleDeletedFiles.
Handlers == {1, 2}

\* A handler that has not been invoked.  files is mappedFiles (the uris of
\* the watcher, the directory of the include commands); todo is what the
\* for loop has still to visit; notFoundFiles is the remove command's
\* counter, notFound the watcher's array of that name; stale is the text
\* the first extension.ts's addToCMake read before its prompt.  The rest
\* records what happened: the prompts answered, whether one was dismissed,
\* whether the handler read or wrote a manifest, whether it wrote while a
\* prompt it had raised was not confirmed, how many entries its calls put
\* into the manifest's text, and what became of the offer to open the
\* manifest ("made", or "threw" when the handler broke off with a TypeError
\* on its way to it).
NewHandler ==
    [kind |-> "none", pc |-> "idle", selection |-> <<>>, files |-> <<>>,
     todo |-> <<>>, missing |-> <<>>, addedFiles |-> 0, existingFiles |-> 0,
     removedFiles |-> 0, notFoundFiles |-> 0, notFound |-> <<>>,
     processedFiles |-> {}, stale |-> <<>>, answered |-> {}, dismissed |-> FALSE,
     warned |-> FALSE, read |-> FALSE, wrote |-> FALSE, wroteUnconfirmed |-> FALSE,
     inserted |-> 0, offer |-> "none"]

CmdIdle == handlers = [h \in Handlers |-> NewHandler] /\ live = {}

\* The watcher after its construction: no path collected, no timer, no
\* event seen. log holds the paths of all events seen, batches and shown
\* hold for each prompt its events and the files it names, open counts the
\* prompts not yet answered, rebuilds the watchers made by updateWatcher,
\* carried holds the events that waited at the latest rebuild, whileOpen
\* tells that an event came while a prompt was open.
NoWatch ==
    [op |-> "none", events |-> 0, gap |-> 0, sinceEvent |-> 0, since |-> <<>>,
     prompts |-> 0, files |-> <<>>, batch |-> <<>>, disposed |-> FALSE,
     log |-> <<>>, batches |-> <<>>, shown |-> <<>>, open |-> 0, rebuilds |-> 0,
     carried |-> <<>>, whileOpen |-> FALSE]

WatchIdle ==
    /\ deletedFiles = <<>>
    /\ deleteTimer = [armed |-> FALSE, remaining |-> 0]
    /\ watch = NoWatch

\* The open documents before any is looked at, the link provider after its
\* construction (lastDocument = '', cachedLinks = [], no timer: timer is
\* the call whose timer runs, 0 for none), and a call that was not made.
\* A call that has resolved keeps what it resolved to and how ("cache",
\* "cancelled", "scanned"), and after a scan the text that was scanned.
NoDocs == <<>>

NewProvider ==
    [lastDocument |-> <<>>, cachedLinks |-> <<>>, timer |-> 0, disposed |-> FALSE]

NoRequest ==
    [state |-> "none", doc |-> 0, currentContent |-> <<>>, cancelled |-> FALSE,
     text |-> <<>>, done |-> 0, links |-> <<>>, result |-> <<>>, by |-> "none"]

Resolved(by, text, links) ==
    [NoRequest EXCEPT !.state = "resolved", !.by = by, !.text = text, !.result = links]

MaxRequests == 2

Requests == 1..MaxRequests

LinkIdle ==
    /\ docs = NoDocs
    /\ provider = NewProvider
    /\ requests = [c \in Requests |-> NoRequest]

NoCall == [op |-> "none", file |-> <<>>, sel |-> <<>>, names |-> <<>>, ret |-> FALSE,
           threw |-> FALSE, wrote |-> FALSE, pre |-> <<>>]

Call(op, file, sel, names, out) ==
    [op |-> op, file |-> file, sel |-> sel, names |-> names, ret |-> out.ret,
     threw |-> out.threw, wrote |-> out.wrote, pre |-> content]

\* The helpers before any call, on an empty manifest.
CoreIdle ==
    /\ content = <<>>
    /\ pc = "idle"
    /\ mappedFiles = <<>>
    /\ missing = <<>>
    /\ last = NoCall
    /\ prev = NoCall
    /\ steps = 0

Init ==
    /\ content \in Manifests
    /\ pc = "idle"
    /\ mappedFiles = <<>>
    /\ missing = <<>>
    /\ last = NoCall
    /\ prev = NoCall
    /\ steps = 0
    /\ FindIdle
    /\ CfgIdle
    /\ CmdIdle
    /\ WatchIdle
    /\ LinkIdle

\* A helper call: the file takes the text the call leaves, the call is
\* recorded.
Record(op, file, sel, names, out) ==
    /\ content' = out.content
    /\ last' = Call(op, file, sel, names, out)
    /\ prev' = last
    /\ steps' = steps + 1

\* await addToCMake(selected.description!, file.fsPath)
AddToCMake(f) ==
    /\ pc = "idle"
    /\ steps < MaxSteps
    /\ Record("add", f, <<>>, <<>>, AddToCMakeFn(content, f))
    /\ UNCHANGED <<pc, mappedFiles, missing, auxVars>>

\* await removeFromCMake(selected.description!, file.fsPath)
RemoveFromCMake(f) ==
    /\ pc = "idle"
    /\ steps < MaxSteps
    /\ Record("remove", f, <<>>, <<>>, RemoveFromCMakeFn(content, f))
    /\ UNCHANGED <<pc, mappedFiles, missing, auxVars>>

\* await addIncludeDirectory(selected.description!, dirPath)
AddIncludeDirectory(d) ==
    /\ pc = "idle"
    /\ steps < MaxSteps
    /\ Record("addInclude", d, <<>>, <<>>, AddIncludeDirectoryFn(content, d))
    /\ UNCHANGED <<pc, mappedFiles, missing, auxVars>>

\* await removeIncludeDirectory(selected.description!, dirPath)
RemoveIncludeDirectory(d) ==
    /\ pc = "idle"
    /\ steps < MaxSteps
    /\ Record("removeInclude", d, <<>>, <<>>, RemoveIncludeDirectoryFn(content, d))
    /\ UNCHANGED <<pc, mappedFiles, missing, auxVars>>

\* The add command up to its prompt: checkMissingSetBlocks on the selection;
\* when names are missing it shows the error message with 'Create' and waits.
CheckMissing(sel) ==
    /\ pc = "idle"
    /\ steps < MaxSteps
    /\ missing' = CheckMissingSetBlocks(content, sel, <<>>)
    /\ pc' = IF missing' # <<>> THEN "confirm" ELSE "idle"
    /\ mappedFiles' = IF missing' # <<>> THEN sel ELSE <<>>
    /\ Record("check", <<>>, sel, missing',
              Outcome(missing' # <<>>, FALSE, FALSE, content))
    /\ UNCHANGED auxVars

\* A variant of the command that creates the blocks whatever the prompt
\* returned.
CreatesWhatever(action) == TRUE

\* if (!action) return; else createMissingSetBlocks: whether the command goes
\* on to write the blocks, given what the prompt returned.
Creates(action) == action = "Create"

\* The prompt returns: 'Create' when the user pressed the button, undefined
\* when the message was dismissed.
Confirm(action) ==
    /\ pc = "confirm"
    /\ steps < MaxSteps
    /\ IF Creates(action)
       THEN Record("create", <<>>, mappedFiles, missing,
                   Outcome(TRUE, FALSE, TRUE, CreateMissingSetBlocksFn(content, missing)))
       ELSE Record("dismiss", <<>>, mappedFiles, missing,
                   Outcome(FALSE, FALSE, FALSE, content))
    /\ pc' = "idle"
    /\ mappedFiles' = <<>>
    /\ missing' = <<>>
    /\ UNCHANGED auxVars

ConfirmCreate == Confirm("Create")

ConfirmDismiss == Confirm("undefined")

Next ==
    \/ \E f \in Files : AddToCMake(f)
    \/ \E f \in Files : RemoveFromCMake(f)
    \/ \E d \in Dirs : AddIncludeDirectory(d)
    \/ \E d \in Dirs : RemoveIncludeDirectory(d)
    \/ \E sel \in Selections : CheckMissing(sel)
    \/ ConfirmCreate
    \/ ConfirmDismiss

Spec == Init /\ [][Next]_vars

\* ----------------------------------------------------- manifest locator

\* 'CMakeLists.txt'
MANIFEST_NAME == <<"C", "M", "a", "k", "e", "L", "i", "s", "t", "s", ".", "t", "x", "t">>

\* The root directory of the (POSIX) file system.
ROOT == <<"/">>

\* currentDir.startsWith(workspaceFolder): a prefix test on the strings.
StartsWith(s, prefix) == StartsWithAt(s, 1, prefix)

\* path.dirname of an absolute path: the path up to its last separator, the
\* root for a path right below the root and for the root itself.
Dirname(p) ==
    LET k == LastIndexOfChar(p, "/")
    IN IF k <= 1 THEN ROOT ELSE Before(p, k)

\* path.join(currentDir, 'CMakeLists.txt')
PathJoin(dir, name) == IF dir = ROOT THEN ROOT \o name ELSE dir \o <<"/">> \o name

\* Whether directory dir is p or an ancestor of p.
Contains(dir, p) == dir = p \/ dir = ROOT \/ StartsWith(p, dir \o <<"/">>)

\* vscode.workspace.getWorkspaceFolder(uri)?.uri.fsPath: the innermost
\* workspace folder that contains the path, <<>> (undefined) when none does.
GetWorkspaceFolder(folders, p) ==
    LET holding == {f \in folders : Contains(f, p)}
    IN IF holding = {} THEN <<>>
       ELSE CHOOSE f \in holding : \A g \in holding : Len(g) <= Len(f)

\* The while loop of findCMakeLists from currentDir on, cmakeFiles so far.
RECURSIVE FindWalk(_, _, _, _)
FindWalk(currentDir, workspaceFolder, files, cmakeFiles) ==
    IF /\ currentDir # Dirname(currentDir)
       /\ workspaceFolder # <<>>
       /\ StartsWith(currentDir, workspaceFolder)
    THEN FindWalk(Dirname(currentDir), workspaceFolder, files,
                  IF PathJoin(currentDir, MANIFEST_NAME) \in files
                  THEN Append(cmakeFiles, PathJoin(currentDir, MANIFEST_NAME))
                  ELSE cmakeFiles)
    ELSE cmakeFiles

\* The directories the while loop of findCMakeLists asks fs.existsSync
\* about, from currentDir on.
RECURSIVE FindInspected(_, _)
FindInspected(currentDir, workspaceFolder) ==
    IF /\ currentDir # Dirname(currentDir)
       /\ workspaceFolder # <<>>
       /\ StartsWith(currentDir, workspaceFolder)
    THEN {currentDir} \cup FindInspected(Dirname(currentDir), workspaceFolder)
    ELSE {}

\* A variant of the loop that goes on while currentDir starts with the
\* parent of the workspace folder.
RECURSIVE FindVisitedPastFolder(_, _)
FindVisitedPastFolder(currentDir, workspaceFolder) ==
    IF /\ currentDir # Dirname(currentDir)
       /\ workspaceFolder # <<>>
       /\ StartsWith(currentDir, Dirname(workspaceFolder))
    THEN <<currentDir>> \o FindVisitedPastFolder(Dirname(currentDir), workspaceFolder)
    ELSE <<>>

\* The values currentDir takes in the iterations of the while loop of
\* findCMakeLists, in their order: an iteration runs while currentDir is
\* not its own dirname and starts with the workspace folder, and ends with
\* currentDir = path.dirname(currentDir).
RECURSIVE FindVisited(_, _)
FindVisited(currentDir, workspaceFolder) ==
    IF /\ currentDir # Dirname(currentDir)
       /\ workspaceFolder # <<>>
       /\ StartsWith(currentDir, workspaceFolder)
    THEN <<currentDir>> \o FindVisited(Dirname(currentDir), workspaceFolder)
    ELSE <<>>

\* A variant of findCMakeLists that walks up to the file system's root when
\* the start path lies in no workspace folder.
FindCMakeListsAnywhere(startPath, folders, files) ==
    FindWalk(startPath,
             IF GetWorkspaceFolder(folders, startPath) = <<>> THEN ROOT
             ELSE GetWorkspaceFolder(folders, startPath),
             files, <<>>)

\* findCMakeLists(startPath) with these workspace folders and these files
\* on disk.
FindCMakeLists(startPath, folders, files) ==
    FindWalk(startPath, GetWorkspaceFolder(folders, startPath), files, <<>>)

\* The directories of the tree the locator is run on: a workspace /w three
\* levels deep and a sibling /wx whose name starts with the same letters.
D_W == <<"/", "w">>

D_WA == D_W \o <<"/", "a">>

D_WAB == D_WA \o <<"/", "b">>

D_WABC == D_WAB \o <<"/", "c">>

D_WX == <<"/", "w", "x">>

D_WXD == D_WX \o <<"/", "d">>

TreeDirs == {ROOT, D_W, D_WA, D_WAB, D_WABC, D_WX, D_WXD}

\* The workspaces: none open, the file system's root, /w, /w with /w/a as a
\* second folder, /w and /wx, /wx.
WorkspaceFolders == {{}, {ROOT}, {D_W}, {D_W, D_WA}, {D_W, D_WX}, {D_WX}}

\* Any set of the tree's directories may hold a manifest.
DiskFiles == {{PathJoin(d, MANIFEST_NAME) : d \in ds} : ds \in SUBSET TreeDirs}

FindInit ==
    /\ CoreIdle
    /\ CfgIdle
    /\ CmdIdle
    /\ WatchIdle
    /\ LinkIdle
    /\ disk \in [command : {"file", "directory"}, startPath : TreeDirs,
                  folders : WorkspaceFolders, files : DiskFiles]
    /\ found = NotFound

\* 'No CMakeLists.txt found!'
NO_CMAKE_FOUND == "No CMakeLists.txt found!"

FindFrame == UNCHANGED <<disk, coreVars, cfgVars, cmdVars, watchVars, linkVars>>

\* The first findCMakeLists of a command. For a command on files
\* (disk.command = "file") it is the call in selectCMakeFile, on the directory
\* of the first mapped file (disk.startPath); for a command on a directory it
\* is the command's own call on dirPath (disk.startPath), which
\* handleDirectorySelection returned for a selected directory.
FindCall ==
    /\ ~found.done
    /\ found' = [found EXCEPT
                    !.done = TRUE,
                    !.stage = "found",
                    !.cmakeFiles = FindCMakeLists(disk.startPath, disk.folders, disk.files),
                    !.inspected = FindInspected(disk.startPath,
                                      GetWorkspaceFolder(disk.folders, disk.startPath)),
                    !.walk = FindVisited(disk.startPath,
                                 GetWorkspaceFolder(disk.folders, disk.startPath))]
    /\ FindFrame

\* cmakeFiles.length === 0: the error message, and the command returns.
NoneFound ==
    /\ found.stage = "found"
    /\ found.cmakeFiles = <<>>
    /\ found' = [found EXCEPT !.stage = "ended", !.message = NO_CMAKE_FOUND]
    /\ FindFrame

\* selectCMakeFile of a command on files: the manifests found are the items
\* of the quick pick.
ShowQuickPick ==
    /\ found.stage = "found"
    /\ disk.command = "file"
    /\ found.cmakeFiles # <<>>
    /\ found' = [found EXCEPT !.stage = "pick", !.items = found.cmakeFiles]
    /\ FindFrame

\* selectCMakeFile([vscode.Uri.file(dirPath)]) of a command on a directory:
\* findCMakeLists(path.dirname(dirPath)); none gives the error message and
\* null, on which the command returns, else its manifests are the items.
SelectForDirectory ==
    /\ found.stage = "found"
    /\ disk.command = "directory"
    /\ found.cmakeFiles # <<>>
    /\ LET dir == Dirname(disk.startPath)
           cmakeFiles == FindCMakeLists(dir, disk.folders, disk.files)
           seen == found.inspected
                      \cup FindInspected(dir, GetWorkspaceFolder(disk.folders, dir))
       IN found' = IF cmakeFiles = <<>>
                   THEN [found EXCEPT !.stage = "ended", !.inspected = seen,
                                      !.message = NO_CMAKE_FOUND]
                   ELSE [found EXCEPT !.stage = "pick", !.inspected = seen,
                                      !.items = cmakeFiles]
    /\ FindFrame

\* The quick pick's answer: item k, whose manifest (description) the helper
\* is then run on, or none (k = 0), on which the command returns.
PickManifest(k) ==
    /\ found.stage = "pick"
    /\ found' = [found EXCEPT !.stage = "ended",
                              !.target = IF k = 0 THEN <<>> ELSE found.items[k]]
    /\ FindFrame

FindNext ==
    \/ FindCall
    \/ NoneFound
    \/ ShowQuickPick
    \/ SelectForDirectory
    \/ \E k \in 0..Len(found.items) : PickManifest(k)

FindSpec == FindInit /\ [][FindNext]_vars

\* -------------------------------------------------------- configuration

X_H == <<".", "h">>

X_HPP == <<".", "h", "p", "p">>

X_HXX == <<".", "h", "x", "x">>

X_CPP == <<".", "c", "p", "p">>

X_CXX == <<".", "c", "x", "x">>

X_CC == <<".", "c", "c">>

\* The supportedExtensions default of package.json.
supportedExtensions == <<X_CPP, X_HPP, X_H, X_HXX, X_CXX, X_CC>>

\* settingsToCheck of checkDefaultWorkspaceSettings: the values it writes.
SeedMapping == {<<X_H, HEADERS>>, <<X_HPP, HEADERS>>, <<X_CPP, SOURCES>>}

SeedExtensions == <<X_CPP, X_HPP, X_H>>

\* A value of a setting that is an object or an array.
Value(v) == [kind |-> "value", v |-> v]

\* !value
Falsy(value) == value \in {Absent, Null}

\* One round of the loop of checkDefaultWorkspaceSettings: the workspace
\* value of a key after it, given package.json's default and the value the
\* function would write.
CheckDefaultSetting(workspaceValue, defaultValue, seed) ==
    IF Falsy(workspaceValue)
    THEN IF Falsy(defaultValue) THEN workspaceValue ELSE seed
    ELSE workspaceValue

\* checkDefaultWorkspaceSettings() on these workspace values.
CheckDefaultWorkspaceSettings(st) ==
    [mapping |-> CheckDefaultSetting(st.mapping, Value(setFileMapping),
                                     Value(SeedMapping)),
     extensions |-> CheckDefaultSetting(st.extensions, Value(supportedExtensions),
                                        Value(SeedExtensions))]

\* The extensions a mapping has an entry for.
Keys(mapping) == {m[1] : m \in mapping}

\* config.get('setFileMapping'): the default when the workspace holds
\* nothing; a workspace value that is an object is merged over the default
\* key by key (WorkspaceConfiguration merges values of type object), any
\* other value replaces it.
GetSetFileMapping(st) ==
    IF st.mapping = Absent THEN Value(setFileMapping)
    ELSE IF st.mapping = Null THEN Null
    ELSE Value({m \in setFileMapping : m[1] \notin Keys(st.mapping.v)} \cup st.mapping.v)

\* config.get('supportedExtensions'): an array replaces the default.
GetSupportedExtensions(st) ==
    IF st.extensions = Absent THEN Value(supportedExtensions) ELSE st.extensions

\* The errors of getTargetVariable and handleFileSelection: the message and
\* the extensions the message names.
NoError == [message |-> "", names |-> <<>>]

NoMappingFound == [message |-> "No mapping found in settings.json", names |-> <<>>]

NoMappingConfigured(ext) ==
    [message |-> "No mapping configured for extension '${ext}' in setFileMapping",
     names |-> <<ext>>]

\* getTargetVariable(filePath) with this value of config.get: the error it
\* throws, NoError when it returns.
TargetVariableError(mapping, f) ==
    IF Falsy(mapping) THEN NoMappingFound
    ELSE IF ToLowerCase(ExtName(f)) \notin Keys(mapping.v)
    THEN NoMappingConfigured(ToLowerCase(ExtName(f)))
    ELSE NoError

\* addToCMake and removeFromCMake with this value of config.get.  The
\* mappings of the model give an extension the name the default gives it.
AddToCMakeUnder(mapping, c, f) ==
    IF TargetVariableError(mapping, f) # NoError THEN Outcome(FALSE, TRUE, FALSE, c)
    ELSE AddToCMakeFn(c, f)

RemoveFromCMakeUnder(mapping, c, f) ==
    IF TargetVariableError(mapping, f) # NoError THEN Outcome(FALSE, TRUE, FALSE, c)
    ELSE RemoveFromCMakeFn(c, f)

\* A variant of the filter that looks the extension up as it is written.
FilterMappedAsWritten(mapping, files) ==
    LET Mapped(file) == ExtName(file) \in Keys(mapping)
    IN SelectSeq(files, Mapped)

\* files.filter(file => mapping[ext] !== undefined), ext being
\* path.extname(file.fsPath).toLowerCase()
FilterMapped(mapping, files) ==
    LET Mapped(file) == ToLowerCase(ExtName(file)) \in Keys(mapping)
    IN SelectSeq(files, Mapped)

\* handleFileSelection(uri, selectedFiles) with this value of config.get:
\* whether it throws, whether it shows the warning and returns null, and
\* mappedFiles.
HandleFileSelection(mapping, files) ==
    IF Falsy(mapping)
    THEN [threw |-> TRUE, warned |-> FALSE, mappedFiles |-> <<>>]
    ELSE [threw |-> FALSE,
          warned |-> FilterMapped(mapping.v, files) = <<>>,
          mappedFiles |-> FilterMapped(mapping.v, files)]

\* A text file, which no mapping of the model knows.
F_T ==
    <<"t", ".", "t", "x", "t">>

\* A header and a source file with the extensions the seeded mapping lacks.
F_Y ==
    <<"y", ".", "h", "x", "x">>

F_Z ==
    <<"z", ".", "c", "c">>

\* The workspace values a run starts from and the user may write: nothing,
\* null, an empty object, objects with entries of the default.
MappingValues ==
    {Absent, Null, Value({}), Value({<<X_H, HEADERS>>}),
     Value({<<X_CC, SOURCES>>, <<X_H, HEADERS>>})}

ExtensionValues == {Absent, Value(<<>>), Value(<<X_CPP>>), Value(supportedExtensions)}

CfgFiles == {F_A, F_X, F_T, F_Y, F_Z}

CfgSelections == {<<F_T>>, <<F_T, F_X, F_Z>>, <<F_Y, F_T, F_A>>}

CfgManifests == {<<>>, B_ONE \o <<"\n">>}

\* How many steps a run on the settings follows.
MaxCfgSteps == 3

CfgInit ==
    /\ content \in CfgManifests
    /\ pc = "idle"
    /\ mappedFiles = <<>>
    /\ missing = <<>>
    /\ last = NoCall
    /\ prev = NoCall
    /\ steps = 0
    /\ FindIdle
    /\ settings \in [mapping : MappingValues, extensions : ExtensionValues]
    /\ cfgLast = NoCfgStep
    /\ cfgSteps = 0
    /\ CmdIdle
    /\ WatchIdle
    /\ LinkIdle

\* A step on the settings: what it was, on what, the settings and the
\* manifest it started from and what it gave.
CfgStep(op, file, sel, out, error, selection) ==
    /\ cfgSteps < MaxCfgSteps
    /\ cfgSteps' = cfgSteps + 1
    /\ cfgLast' = [op |-> op, file |-> file, sel |-> sel, before |-> settings,
                   pre |-> content, out |-> out, error |-> error,
                   selection |-> selection]
    /\ content' = out.content
    /\ UNCHANGED <<pc, mappedFiles, missing, last, prev, steps, findVars, cmdVars,
                   watchVars, linkVars>>

NoSelection == [threw |-> FALSE, warned |-> FALSE, mappedFiles |-> <<>>]

\* activate: await checkDefaultWorkspaceSettings()
Activate ==
    /\ CfgStep("activate", <<>>, <<>>, Outcome(FALSE, FALSE, FALSE, content), NoError,
               NoSelection)
    /\ settings' = CheckDefaultWorkspaceSettings(settings)

\* The user writes the workspace's setFileMapping in the settings file.
EditSettings(value) ==
    /\ CfgStep("edit", <<>>, <<>>, Outcome(FALSE, FALSE, FALSE, content), NoError,
               NoSelection)
    /\ settings' = [settings EXCEPT !.mapping = value]

\* addToCMake(cmakePath, filePath) with the settings as they are.
ConfiguredAdd(f) ==
    /\ CfgStep("add", f, <<>>, AddToCMakeUnder(GetSetFileMapping(settings), content, f),
               TargetVariableError(GetSetFileMapping(settings), f), NoSelection)
    /\ UNCHANGED settings

\* removeFromCMake(cmakePath, filePath) with the settings as they are.
ConfiguredRemove(f) ==
    /\ CfgStep("remove", f, <<>>,
               RemoveFromCMakeUnder(GetSetFileMapping(settings), content, f),
               TargetVariableError(GetSetFileMapping(settings), f), NoSelection)
    /\ UNCHANGED settings

\* handleFileSelection(uri, selectedFiles) with the settings as they are.
ConfiguredSelect(sel) ==
    /\ CfgStep("select", <<>>, sel, Outcome(FALSE, FALSE, FALSE, content),
               IF Falsy(GetSetFileMapping(settings)) THEN NoMappingFound ELSE NoError,
               HandleFileSelection(GetSetFileMapping(settings), sel))
    /\ UNCHANGED settings

CfgNext ==
    \/ Activate
    \/ \E value \in MappingValues : EditSettings(value)
    \/ \E f \in CfgFiles : ConfiguredAdd(f)
    \/ \E f \in CfgFiles : ConfiguredRemove(f)
    \/ \E sel \in CfgSelections : ConfiguredSelect(sel)

CfgSpec == CfgInit /\ [][CfgNext]_vars

\* -------------------------------------------------------- command flows

\* How often pat occurs in s.
Occurrences(s, pat) == Cardinality({i \in 1..Len(s) : StartsWithAt(s, i, pat)})

\* The prompts a handler's writes wait for have all returned the answer
\* that lets the flow go on: the quick pick an item, the deletion prompt
\* 'Yes', and 'Create' where the flow asked for it.
Confirmed(hd) ==
    /\ ~hd.dismissed
    /\ "pick" \in hd.answered
    /\ hd.kind = "watch" => "Yes" \in hd.answered
    /\ (hd.missing # <<>> \/ hd.pc = "confirmOne") => "Create" \in hd.answered

\* The handler after a helper call that read the manifest and left out.
Called(hd, out) ==
    [hd EXCEPT !.read = TRUE,
               !.wrote = @ \/ out.wrote,
               !.wroteUnconfirmed = @ \/ (out.wrote /\ ~Confirmed(hd))]

\* The same for a call that adds or removes entry: the entry occurs so
\* many times more in the manifest's text.
Touched(hd, entry, out) ==
    [Called(hd, out) EXCEPT !.inserted = @ + Occurrences(out.content, entry)
                                           - Occurrences(content, entry)]

\* The entries whose latest add returned true and that no remove that
\* returned true followed.
LiveAfter(adds, entry, out) ==
    IF ~out.ret THEN live
    ELSE IF adds THEN live \cup {entry} ELSE live \ {entry}

\* The commands and what they are run on.
CmdSelections == {<<F_T>>, <<F_T, F_P, F_A>>, <<F_X, F_T, F_B>>}

DeletedUris == {<<F_A, F_B>>, <<F_X>>}

CmdDirs == {D_INC, D_SUB}

CmdManifests == {<<>>, Lines(<<B_ONE, B_HDR>>), PROJECT \o Lines(<<B_SUB>>)}

CmdInit ==
    /\ content \in CmdManifests
    /\ pc = "idle"
    /\ mappedFiles = <<>>
    /\ missing = <<>>
    /\ last = NoCall
    /\ prev = NoCall
    /\ steps = 0
    /\ FindIdle
    /\ CfgIdle
    /\ CmdIdle
    /\ WatchIdle
    /\ LinkIdle

\* The handler h goes on as hd; the manifest takes the text text.
Goes(h, hd, text, alive) ==
    /\ handlers' = [handlers EXCEPT ![h] = hd]
    /\ content' = text
    /\ live' = alive
    /\ UNCHANGED <<pc, mappedFiles, missing, last, prev, steps, findVars, cfgVars,
                   watchVars, linkVars>>

\* The add or the remove command is invoked: handleFileSelection.
InvokeCommand(h, kind, sel) ==
    /\ handlers[h].pc = "idle"
    /\ LET r == HandleFileSelection(GetSetFileMapping(settings), sel)
       IN Goes(h, [NewHandler EXCEPT !.kind = kind, !.selection = sel,
                                     !.files = r.mappedFiles, !.warned = r.warned,
                                     !.pc = IF r.threw \/ r.warned THEN "done" ELSE "pick"],
               content, live)

\* An include command is invoked: handleDirectorySelection gives the
\* directory.
InvokeInclude(h, kind, d) ==
    /\ handlers[h].pc = "idle"
    /\ Goes(h, [NewHandler EXCEPT !.kind = kind, !.selection = <<d>>, !.files = <<d>>,
                                  !.pc = "pick"],
            content, live)

\* The add command of the first extension.ts is invoked on one file.
InvokeAddOne(h, f) ==
    /\ handlers[h].pc = "idle"
    /\ Goes(h, [NewHandler EXCEPT !.kind = "addOne", !.selection = <<f>>, !.files = <<f>>,
                                  !.pc = "pick"],
            content, live)

\* The watcher's timer fires: handleDeletedFiles(uris) shows its prompt.
HandleDeletedFiles(h, uris) ==
    /\ handlers[h].pc = "idle"
    /\ Goes(h, [NewHandler EXCEPT !.kind = "watch", !.selection = uris, !.files = uris,
                                  !.pc = "yesno"],
            content, live)

\* if (action !== 'Yes') return
AnswerDeleted(h, action) ==
    /\ handlers[h].pc = "yesno"
    /\ Goes(h, IF action = "Yes"
               THEN [handlers[h] EXCEPT !.answered = @ \cup {"Yes"}, !.pc = "pick"]
               ELSE [handlers[h] EXCEPT !.dismissed = TRUE, !.pc = "done"],
            content, live)

\* Where a flow goes once its manifest is selected.
AfterPick(kind) ==
    IF kind = "add" THEN "check"
    ELSE IF kind \in {"remove", "watch"} THEN "loop"
    ELSE "call"

\* The watcher's flow with selected = null: the while loop is not entered
\* again, and with processedFiles.size > 0 the argument
\* selected!.description! is read off null, a TypeError that ends
\* handleDeletedFiles before openCMakeListsIfRequested is called.
OfferWithout(hd) ==
    IF hd.kind = "watch" /\ hd.processedFiles # {} THEN "threw" ELSE hd.offer

\* selectCMakeFile: findCMakeLists finds manifests or none; the quick pick
\* returns an item or undefined.
SelectCMakeFile(h, exists, item) ==
    /\ handlers[h].pc = "pick"
    /\ Goes(h, IF ~exists
               THEN [handlers[h] EXCEPT !.offer = OfferWithout(handlers[h]),
                                        !.pc = "done"]
               ELSE IF item = "undefined"
               THEN [handlers[h] EXCEPT !.dismissed = TRUE,
                                        !.offer = OfferWithout(handlers[h]),
                                        !.pc = "done"]
               ELSE [handlers[h] EXCEPT !.answered = @ \cup {"pick"},
                                        !.todo = handlers[h].files,
                                        !.removedFiles = 0,
                                        !.notFound = <<>>,
                                        !.pc = AfterPick(handlers[h].kind)],
            content, live)

\* await checkMissingSetBlocks(...); with names missing the command shows
\* the error message with 'Create'.
CheckMissingBlocks(h) ==
    /\ handlers[h].pc = "check"
    /\ LET names == CheckMissingSetBlocks(content, handlers[h].files, <<>>)
       IN Goes(h, [handlers[h] EXCEPT !.read = TRUE, !.missing = names,
                                      !.pc = IF names # <<>> THEN "confirm" ELSE "loop"],
               content, live)

\* The add command's prompt returns; createMissingSetBlocks on 'Create'.
AnswerCreate(h, action) ==
    /\ handlers[h].pc = "confirm"
    /\ LET hd == [handlers[h] EXCEPT
                     !.answered = IF action = "Create" THEN @ \cup {"Create"} ELSE @,
                     !.dismissed = @ \/ action # "Create"]
       IN IF Creates(action)
          THEN Goes(h, [Called(hd, Outcome(TRUE, FALSE, TRUE,
                                           CreateMissingSetBlocksFn(content, hd.missing)))
                           EXCEPT !.pc = "loop"],
                    CreateMissingSetBlocksFn(content, hd.missing), live)
          ELSE Goes(h, [hd EXCEPT !.pc = "done"], content, live)

\* for (const file of mappedFiles): what the loop has still to visit after
\* a call that returned ret.
LoopRest(ret, todo) == Tail(todo)

\* Where the flow is when the loop has visited its last file: the commands
\* report; the watcher offers another manifest for the files not found.
AfterLoop(hd) ==
    IF hd.kind # "watch" THEN "report"
    ELSE IF hd.notFound # <<>> THEN "retry"
    ELSE IF hd.processedFiles # {} THEN "report"
    ELSE "done"

\* The counters after a call for file f that returned ret.
Counted(hd, f, ret) ==
    IF hd.kind = "add"
    THEN IF ret THEN [hd EXCEPT !.addedFiles = @ + 1] ELSE [hd EXCEPT !.existingFiles = @ + 1]
    ELSE IF hd.kind = "remove"
    THEN IF ret THEN [hd EXCEPT !.removedFiles = @ + 1]
         ELSE [hd EXCEPT !.notFoundFiles = @ + 1]
    ELSE IF ret THEN [hd EXCEPT !.removedFiles = @ + 1, !.processedFiles = @ \cup {f}]
         ELSE [hd EXCEPT !.notFound = Append(@, f)]

\* One round of the for loop: await addToCMake or removeFromCMake on the
\* next file.  An exception ends the handler.
LoopCall(h) ==
    /\ handlers[h].pc = "loop"
    /\ LET hd == handlers[h]
           f == Head(hd.todo)
           adds == hd.kind = "add"
           out == IF adds THEN AddToCMakeFn(content, f) ELSE RemoveFromCMakeFn(content, f)
           rest == LoopRest(out.ret, hd.todo)
           counted == [Counted(Touched(hd, QuotedRelativePath(f), out), f, out.ret)
                          EXCEPT !.todo = rest]
       IN IF out.threw
          THEN Goes(h, [hd EXCEPT !.read = TRUE, !.pc = "done"], content, live)
          ELSE Goes(h, [counted EXCEPT !.pc = IF rest # <<>> THEN "loop"
                                              ELSE AfterLoop(counted)],
                    out.content, LiveAfter(adds, QuotedRelativePath(f), out))

\* A variant of the retry prompt's handling that offers the whole batch for
\* the next manifest.
AnswerRetryWholeBatch(h, retryAction) ==
    /\ handlers[h].pc = "retry"
    /\ Goes(h, IF retryAction = "Select Another"
               THEN [handlers[h] EXCEPT !.files = handlers[h].selection, !.pc = "pick"]
               ELSE [handlers[h] EXCEPT
                        !.pc = IF handlers[h].processedFiles # {} THEN "report" ELSE "done"],
            content, live)

\* The watcher's 'Select Another' / 'Skip' prompt returns.
AnswerRetry(h, retryAction) ==
    /\ handlers[h].pc = "retry"
    /\ Goes(h, IF retryAction = "Select Another"
               THEN [handlers[h] EXCEPT !.files = handlers[h].notFound, !.pc = "pick"]
               ELSE [handlers[h] EXCEPT
                        !.pc = IF handlers[h].processedFiles # {} THEN "report" ELSE "done"],
            content, live)

\* The block the first extension.ts's addToCMake writes when the manifest
\* has none and the prompt returned 'Create': into the text it read before
\* the prompt, behind the last set(...), else behind project(...), else at
\* the top.
AddToCMakeCreate(stale, f) ==
    LET block == SET_OPEN \o GetTargetVariable(f) \o INDENT \o QuotedRelativePath(f)
                    \o <<"\n", ")">>
        lastSetIndex == LastSetMatchEnd(stale, 1, 0)
        projectIndex == ProjectMatchEnd(stale)
    IN IF lastSetIndex > 0
       THEN Before(stale, lastSetIndex + 1) \o <<"\n", "\n">> \o block
               \o From(stale, lastSetIndex + 1)
       ELSE IF projectIndex > 0
       THEN Before(stale, projectIndex + 1) \o <<"\n", "\n">> \o block
               \o From(stale, projectIndex + 1)
       ELSE block \o <<"\n", "\n">> \o stale

\* The single call of the include commands and of the first extension.ts's
\* add command.  That addToCMake reads the manifest and, finding no block,
\* awaits its own 'Create' prompt before it writes.
SingleCall(h) ==
    /\ handlers[h].pc = "call"
    /\ LET hd == handlers[h]
           x == Head(hd.files)
       IN IF hd.kind = "addOne"
          THEN IF ~HasTargetVariable(x)
               THEN Goes(h, [hd EXCEPT !.read = TRUE, !.pc = "done"], content, live)
               ELSE IF MatchSet(content, GetTargetVariable(x)).index = 0
               THEN Goes(h, [hd EXCEPT !.read = TRUE, !.stale = content,
                                       !.pc = "confirmOne"],
                         content, live)
               ELSE LET out == AddToCMakeFn(content, x)
                    IN Goes(h, [Touched(hd, QuotedRelativePath(x), out)
                                   EXCEPT !.pc = "report"],
                            out.content, LiveAfter(TRUE, QuotedRelativePath(x), out))
          ELSE LET adds == hd.kind = "addInclude"
                   out == IF adds THEN AddIncludeDirectoryFn(content, x)
                          ELSE RemoveIncludeDirectoryFn(content, x)
               IN Goes(h, [Touched(hd, IncludeEntry(x), out) EXCEPT !.pc = "report"],
                       out.content, LiveAfter(adds, IncludeEntry(x), out))

\* The prompt inside the first extension.ts's addToCMake returns.
AnswerCreateOne(h, action) ==
    /\ handlers[h].pc = "confirmOne"
    /\ LET hd == [handlers[h] EXCEPT
                     !.answered = IF action = "Create" THEN @ \cup {"Create"} ELSE @,
                     !.dismissed = @ \/ action # "Create"]
           x == Head(hd.files)
           out == Outcome(TRUE, FALSE, TRUE, AddToCMakeCreate(hd.stale, x))
       IN IF action = "Create"
          THEN Goes(h, [Touched(hd, QuotedRelativePath(x), out) EXCEPT !.pc = "report"],
                    out.content, LiveAfter(TRUE, QuotedRelativePath(x), out))
          ELSE Goes(h, [hd EXCEPT !.pc = "report"], content, live)

\* openCMakeListsIfRequested returns, whatever the answer.
Report(h) ==
    /\ handlers[h].pc = "report"
    /\ Goes(h, [handlers[h] EXCEPT !.offer = "made", !.pc = "done"], content, live)

CmdNext ==
    \E h \in Handlers :
        \/ \E kind \in {"add", "remove"}, sel \in CmdSelections : InvokeCommand(h, kind, sel)
        \/ \E kind \in {"addInclude", "removeInclude"}, d \in CmdDirs :
              InvokeInclude(h, kind, d)
        \/ \E f \in {F_A, F_X} : InvokeAddOne(h, f)
        \/ \E uris \in DeletedUris : HandleDeletedFiles(h, uris)
        \/ \E action \in {"Yes", "No", "undefined"} : AnswerDeleted(h, action)
        \/ \E exists \in BOOLEAN, item \in {"item", "undefined"} :
              SelectCMakeFile(h, exists, item)
        \/ CheckMissingBlocks(h)
        \/ \E action \in {"Create", "undefined"} : AnswerCreate(h, action)
        \/ LoopCall(h)
        \/ \E retryAction \in {"Select Another", "Skip", "undefined"} :
              AnswerRetry(h, retryAction)
        \/ SingleCall(h)
        \/ \E action \in {"Create", "undefined"} : AnswerCreateOne(h, action)
        \/ Report(h)

CmdSpec == CmdInit /\ [][CmdNext]_vars

\* ------------------------------------------------------ deletion watcher

\* setTimeout(..., 500)
DEBOUNCE_MS == 500

\* A variant of the handler that leaves a running timer alone.
KeepTimer(timer) ==
    IF timer.armed THEN timer ELSE [armed |-> TRUE, remaining |-> DEBOUNCE_MS]

\* if (this.deleteTimer) clearTimeout(this.deleteTimer);
\* this.deleteTimer = setTimeout(..., 500)
RestartTimer(timer) == [armed |-> TRUE, remaining |-> DEBOUNCE_MS]

\* this.deletedFiles.add(uri.fsPath): a Set keeps each path once, in the
\* order of first insertion.
SetAdd(paths, p) == IF Includes(paths, p) THEN paths ELSE Append(paths, p)

\* The paths delete events come for, the spans of time between two things
\* happening, and how many events a run follows.
DeletedPaths == {F_A, F_B, F_Y}

Delays == {100, 200, 400}

MaxEvents == 3

MaxRebuilds == 1

WatchInit ==
    /\ CoreIdle
    /\ FindIdle
    /\ CfgIdle
    /\ CmdIdle
    /\ WatchIdle
    /\ LinkIdle

\* What the watcher's steps leave alone.
WatchFrame == UNCHANGED <<coreVars, findVars, cfgVars, cmdVars, linkVars>>

\* this.watcher.onDidDelete fires for path p.
OnDidDelete(p) ==
    /\ ~watch.disposed
    /\ watch.events < MaxEvents
    /\ deletedFiles' = SetAdd(deletedFiles, p)
    /\ deleteTimer' = RestartTimer(deleteTimer)
    /\ watch' = [watch EXCEPT !.op = "delete", !.events = @ + 1,
                              !.gap = watch.sinceEvent, !.sinceEvent = 0,
                              !.since = Append(@, p), !.log = Append(@, p),
                              !.whileOpen = @ \/ watch.open > 0]
    /\ WatchFrame

\* Time passes; a running timer does not run past its end.
Elapse(d) ==
    /\ deleteTimer.armed
    /\ d <= deleteTimer.remaining
    /\ deleteTimer' = [deleteTimer EXCEPT !.remaining = @ - d]
    /\ watch' = [watch EXCEPT !.op = "elapse", !.sinceEvent = @ + d]
    /\ UNCHANGED deletedFiles
    /\ WatchFrame

\* The timer's callback: Array.from(this.deletedFiles), clear(),
\* handleDeletedFiles(files), which shows the prompt and is not awaited.
TimerFires ==
    /\ deleteTimer.armed
    /\ deleteTimer.remaining = 0
    /\ deleteTimer' = [armed |-> FALSE, remaining |-> 0]
    /\ deletedFiles' = <<>>
    /\ watch' = [watch EXCEPT !.op = "prompt", !.prompts = @ + 1,
                              !.files = deletedFiles, !.batch = watch.since,
                              !.since = <<>>,
                              !.batches = Append(@, watch.since),
                              !.shown = Append(@, deletedFiles),
                              !.open = @ + 1]
    /\ WatchFrame

\* The user answers or dismisses one of the open prompts
\* (await showInformationMessage returns in handleDeletedFiles).
AnswerPrompt ==
    /\ watch.open > 0
    /\ watch' = [watch EXCEPT !.op = "answer", !.open = @ - 1]
    /\ UNCHANGED <<deletedFiles, deleteTimer>>
    /\ WatchFrame

\* A variant of updateWatcher that starts the new watcher with an empty
\* Set and no timer.
UpdateWatcherFromScratch(supported) ==
    /\ ~watch.disposed
    /\ watch.rebuilds < MaxRebuilds
    /\ IF supported
       THEN /\ watch' = [watch EXCEPT !.op = "rebuild", !.rebuilds = @ + 1,
                                      !.carried = watch.since]
            /\ deletedFiles' = <<>>
            /\ deleteTimer' = [armed |-> FALSE, remaining |-> 0]
       ELSE /\ watch' = [watch EXCEPT !.op = "config"]
            /\ UNCHANGED <<deletedFiles, deleteTimer>>
    /\ WatchFrame

\* onDidChangeConfiguration for supportedExtensions: updateWatcher().
\* Without a value it returns; with one it disposes this.watcher, creates
\* a watcher for the new pattern and registers the same handler on it.
\* this.deletedFiles and this.deleteTimer are not touched.
UpdateWatcher(supported) ==
    /\ ~watch.disposed
    /\ watch.rebuilds < MaxRebuilds
    /\ IF supported
       THEN watch' = [watch EXCEPT !.op = "rebuild", !.rebuilds = @ + 1,
                                   !.carried = watch.since]
       ELSE watch' = [watch EXCEPT !.op = "config"]
    /\ UNCHANGED <<deletedFiles, deleteTimer>>
    /\ WatchFrame

\* dispose(): clearTimeout(this.deleteTimer), this.watcher.dispose()
Dispose ==
    /\ ~watch.disposed
    /\ deleteTimer' = [armed |-> FALSE, remaining |-> 0]
    /\ watch' = [watch EXCEPT !.op = "dispose", !.disposed = TRUE]
    /\ UNCHANGED deletedFiles
    /\ WatchFrame

WatchNext ==
    \/ \E p \in DeletedPaths : OnDidDelete(p)
    \/ \E d \in Delays : Elapse(d)
    \/ TimerFires
    \/ AnswerPrompt
    \/ \E supported \in BOOLEAN : UpdateWatcher(supported)
    \/ Dispose

WatchSpec == WatchInit /\ [][WatchNext]_vars

\* -------------------------------------------------------- link provider

\* \w (which holds "_") and the two quote characters of the expressions.
IsWord(c) ==
    c \in {"a", "b", "c", "d", "e", "f", "g", "h", "i", "j", "k", "l", "m", "n", "o",
           "p", "q", "r", "s", "t", "u", "v", "w", "x", "y", "z",
           "A", "B", "C", "D", "E", "F", "G", "H", "I", "J", "K", "L", "M", "N", "O",
           "P", "Q", "R", "S", "T", "U", "V", "W", "X", "Y", "Z",
           "0", "1", "2", "3", "4", "5", "6", "7", "8", "9", "_"}

IsQuote(c) == c \in {"\"", "'"}

\* The greedy [\w_]+ and [^"']+ : the first position at or after j that
\* holds no such character.
SkipWord(s, j) == Min({k \in j..(Len(s) + 1) : k > Len(s) \/ ~IsWord(s[k])})

SkipPlain(s, j) == Min({k \in j..(Len(s) + 1) : k > Len(s) \/ IsQuote(s[k])})

\* ["'][^"']+["'] at position k: the position of the closing quote, 0 when
\* the text has no such token there.
TokenClose(s, k) ==
    IF /\ k <= Len(s)
       /\ IsQuote(s[k])
       /\ SkipPlain(s, k + 1) > k + 1
       /\ SkipPlain(s, k + 1) <= Len(s)
    THEN SkipPlain(s, k + 1)
    ELSE 0

\* (?:["'][^"']+["']\s*)+ from position k on: the quoted tokens, each with
\* the positions of its quotes.  fileSection.matchAll(/["']([^"']+?)["']/g)
\* finds the same tokens, since the section holds nothing but such tokens
\* and white space.
RECURSIVE QuotedTokens(_, _)
QuotedTokens(s, k) ==
    IF TokenClose(s, k) = 0 THEN <<>>
    ELSE <<[open |-> k, close |-> TokenClose(s, k)]>>
            \o QuotedTokens(s, SkipWs(s, TokenClose(s, k) + 1))

NoLinkMatch == [index |-> 0, end |-> 0, tokens |-> <<>>]

\* /set\s*\([\w_]+\s+((?:["'][^"']+["']\s*)+)\)/ tried at position i: where
\* the match starts and ends and the tokens of its group 1.
LinkMatchAt(s, i) ==
    LET open == SkipWs(s, i + 3)
        nameEnd == SkipWord(s, open + 1)
        section == SkipWs(s, nameEnd)
        tokens == QuotedTokens(s, section)
        close == SkipWs(s, tokens[Len(tokens)].close + 1)
    IN IF /\ StartsWithAt(s, i, <<"s", "e", "t">>)
          /\ open <= Len(s)
          /\ s[open] = "("
          /\ nameEnd > open + 1
          /\ section > nameEnd
          /\ tokens # <<>>
          /\ close <= Len(s)
          /\ s[close] = ")"
       THEN [index |-> i, end |-> close, tokens |-> tokens]
       ELSE NoLinkMatch

\* while ((match = regex.exec(text)) !== null) with the global expression,
\* and for (const fileMatch of fileMatches) inside: the tokens the scan
\* visits from position from on, each with its match (index, end) and
\* whether it is the first of its match.
RECURSIVE ScanTokens(_, _)
ScanTokens(s, from) ==
    LET hits == {i \in from..Len(s) : LinkMatchAt(s, i).index # 0}
        match == LinkMatchAt(s, Min(hits))
    IN IF hits = {} THEN <<>>
       ELSE [j \in 1..Len(match.tokens) |->
                [index |-> match.index, end |-> match.end,
                 open |-> match.tokens[j].open, close |-> match.tokens[j].close,
                 first |-> j = 1]]
            \o ScanTokens(s, match.end + 1)

\* The files of the workspace, by name, and
\* vscode.workspace.findFiles('**/' + fileName, ...).
WorkspaceFiles == {<<"a", ".", "c">>, <<"b", ".", "h">>}

FindFiles(fileName) == {f \in WorkspaceFiles : f = fileName}

\* const fileName = fileMatch[1].trim()
FileName(s, token) == Trim(SubSeq(s, token.open + 1, token.close - 1))

\* The link of a token: quotedStringIndex = fullMatch.indexOf(fullQuotedString),
\* absoluteStart = match.index + quotedStringIndex + 1, absoluteEnd =
\* absoluteStart + fileName.length, as offsets from 0; the target carries
\* fileName.
DocumentLink(s, token) ==
    LET fullQuotedString == SubSeq(s, token.open, token.close)
        fullMatch == SubSeq(s, token.index, token.end)
        quotedStringIndex == IndexOf(fullMatch, fullQuotedString) - 1
        absoluteStart == (token.index - 1) + quotedStringIndex + 1
    IN [start |-> absoluteStart, end |-> absoluteStart + Len(FileName(s, token)),
        fileName |-> FileName(s, token)]

\* A variant of the cache test that, once a text was scanned, takes every
\* text for it.
CacheHitOnceScanned(p, currentContent) ==
    p.lastDocument = currentContent \/ p.lastDocument # <<>>

\* this.lastDocument === currentContent
CacheHit(p, currentContent) == p.lastDocument = currentContent

\* The documents: an empty one; a block that names a file of the workspace
\* twice; two blocks, the first with a file the workspace does not hold,
\* the second with a token in single quotes.
L_EMPTY == <<>>

L_TWICE ==
    <<"s", "e", "t", "(", "S", " ", "\"", "a", ".", "c", "\"", "\n",
      "\"", "a", ".", "c", "\"", ")">>

L_TWO ==
    <<"s", "e", "t", "(", "S", " ", "\"", "n", ".", "c", "\"", ")", "\n",
      "s", "e", "t", " ", "(", "H", "\n", "'", "b", ".", "h", "'", "\n", ")">>

LinkTexts == {L_EMPTY, L_TWICE, L_TWO}

Documents == {1, 2}

\* The tokens the scan visits in each of the documents' texts.
TokensOf == [t \in LinkTexts |-> ScanTokens(t, 1)]

LinkInit ==
    /\ CoreIdle
    /\ FindIdle
    /\ CfgIdle
    /\ CmdIdle
    /\ WatchIdle
    /\ docs \in [Documents -> LinkTexts]
    /\ provider = NewProvider
    /\ requests = [c \in Requests |-> NoRequest]

LinkFrame == UNCHANGED <<coreVars, findVars, cfgVars, cmdVars, watchVars>>

\* provideDocumentLinks(document, token) is called, as call c: the cached
\* links at once when the text is the one last scanned, else the timer of
\* the call before is cleared and this call's timer set.
ProvideDocumentLinks(c, d) ==
    /\ ~provider.disposed
    /\ requests[c].state = "none"
    /\ \A b \in Requests : b < c => requests[b].state # "none"
    /\ LET asked == [NoRequest EXCEPT !.doc = d, !.currentContent = docs[d]]
       IN IF CacheHit(provider, docs[d])
          THEN /\ requests' = [requests EXCEPT ![c] =
                                  Resolved("cache", <<>>, provider.cachedLinks)]
               /\ UNCHANGED provider
          ELSE /\ requests' = [requests EXCEPT ![c] = [asked EXCEPT !.state = "waiting"]]
               /\ provider' = [provider EXCEPT !.timer = c]
    /\ UNCHANGED docs
    /\ LinkFrame

\* The user edits document d: its text becomes t.
EditDocument(d, t) ==
    /\ docs[d] # t
    /\ docs' = [docs EXCEPT ![d] = t]
    /\ UNCHANGED <<provider, requests>>
    /\ LinkFrame

\* The editor cancels the token of call c.
CancelToken(c) ==
    /\ requests[c].state \in {"waiting", "scanning"}
    /\ ~requests[c].cancelled
    /\ requests' = [requests EXCEPT ![c].cancelled = TRUE]
    /\ UNCHANGED <<docs, provider>>
    /\ LinkFrame

\* The scan of call r has visited its last token: this.lastDocument =
\* currentContent, this.cachedLinks = links, resolve(links).
ScanEnds(c, r) ==
    /\ requests' = [requests EXCEPT ![c] = Resolved("scanned", r.text, r.links)]
    /\ provider' = [provider EXCEPT !.timer = IF @ = c THEN 0 ELSE @,
                                    !.lastDocument = r.currentContent,
                                    !.cachedLinks = r.links]

\* The timer of call c runs out: resolve([]) under a cancelled token, else
\* the scan of document.getText() starts and awaits its first findFiles.
DebounceFires(c) ==
    /\ provider.timer = c
    /\ requests[c].state = "waiting"
    /\ LET r == requests[c]
           text == docs[r.doc]
       IN IF r.cancelled
          THEN /\ requests' = [requests EXCEPT ![c] = Resolved("cancelled", <<>>, <<>>)]
               /\ provider' = [provider EXCEPT !.timer = 0]
          ELSE IF TokensOf[text] = <<>>
          THEN ScanEnds(c, [r EXCEPT !.text = text])
          ELSE /\ requests' = [requests EXCEPT ![c] =
                                  [r EXCEPT !.state = "scanning", !.text = text]]
               /\ provider' = [provider EXCEPT !.timer = 0]
    /\ UNCHANGED docs
    /\ LinkFrame

\* The findFiles of call c returns: a link for the token when files were
\* found; then the next token, with the token's cancellation looked at
\* before the first token of a match, or the end of the scan.
SearchCompletes(c) ==
    /\ requests[c].state = "scanning"
    /\ LET r == requests[c]
           tokens == TokensOf[r.text]
           token == tokens[r.done + 1]
           links == IF FindFiles(FileName(r.text, token)) = {} THEN r.links
                    ELSE Append(r.links, DocumentLink(r.text, token))
           seen == [r EXCEPT !.done = @ + 1, !.links = links]
       IN IF seen.done = Len(tokens)
          THEN ScanEnds(c, seen)
          ELSE /\ requests' = [requests EXCEPT ![c] =
                                  IF tokens[seen.done + 1].first /\ r.cancelled
                                  THEN Resolved("cancelled", <<>>, <<>>)
                                  ELSE seen]
               /\ UNCHANGED provider
    /\ UNCHANGED docs
    /\ LinkFrame

\* The registration of the provider is disposed of (the extension's
\* subscriptions): the editor calls the provider no more.  The class has no
\* dispose of its own.
DisposeProvider ==
    /\ ~provider.disposed
    /\ provider' = [provider EXCEPT !.disposed = TRUE]
    /\ UNCHANGED <<docs, requests>>
    /\ LinkFrame

LinkNext ==
    \/ \E c \in Requests, d \in Documents : ProvideDocumentLinks(c, d)
    \/ \E d \in Documents, t \in LinkTexts : EditDocument(d, t)
    \/ \E c \in Requests : CancelToken(c)
    \/ \E c \in Requests : DebounceFires(c)
    \/ \E c \in Requests : SearchCompletes(c)
    \/ DisposeProvider

LinkSpec == LinkInit /\ [][LinkNext]_vars

\* The timer of a call runs out in the end, and a findFiles returns in the
\* end.
LinkFairSpec ==
    /\ LinkSpec
    /\ \A c \in Requests : WF_vars(DebounceFires(c))
    /\ \A c \in Requests : WF_vars(SearchCompletes(c))

\* ------------------------------------------------------ block synthesis

\* A project declaration with a comment behind it on its line.
PROJECT_NOTE ==
    <<"p", "r", "o", "j", "e", "c", "t", "(", "P", ")", " ", "#", "p", "\n">>

\* A block with a comment behind its closing bracket.
B_NOTE ==
    <<"s", "e", "t", "(", "O", "B", "J", " ", "o", ")", " ", "#", "o">>

\* The manifests createMissingSetBlocks is run on: those of the helpers, and
\* some whose anchor has text behind it on its line or ends the file.
CreateManifests ==
    Manifests \cup {PROJECT_NOTE, PROJECT_NOTE \o Lines(<<B_HDR, B_NOTE>>),
                    Lines(<<B_NOTE>>), B_HDR, <<"p", "r", "o", "j", "e", "c", "t", "(", "P", ")">>}

\* The selections the add command is run on here (mappedFiles).
CreateSelections ==
    {<<F_A>>, <<F_X>>, <<F_X, F_B, F_A>>, <<F_A, F_X, F_B>>, <<F_Z, F_Y, F_A, F_X>>}

CreateInit ==
    /\ content \in CreateManifests
    /\ pc = "idle"
    /\ mappedFiles = <<>>
    /\ missing = <<>>
    /\ last = NoCall
    /\ prev = NoCall
    /\ steps = 0
    /\ FindIdle
    /\ CfgIdle
    /\ CmdIdle
    /\ WatchIdle
    /\ LinkIdle

\* The add command up to its loop: checkMissingSetBlocks, the prompt, and
\* createMissingSetBlocks when the prompt returns 'Create'.
CreateNext ==
    \/ \E sel \in CreateSelections : CheckMissing(sel)
    \/ ConfirmCreate
    \/ ConfirmDismiss

CreateSpec == CreateInit /\ [][CreateNext]_vars

\* --------------------------------------------------------------- claims

\* The latest call is addToCMake / removeFromCMake and got past
\* getTargetVariable.
LastIsAdd == last.op = "add" /\ ~last.threw

LastIsRemove == last.op = "remove" /\ ~last.threw

\* The set() variable and the quoted entry of the latest file call.
LastName == GetTargetVariable(last.file)

LastQuoted == QuotedRelativePath(last.file)

\* Whether createSetRegex(name) locates a block in s.
Locatable(s, name) == MatchSet(s, name).index > 0

\* C1: add is idempotent.  When addToCMake is called twice in a row for the
\* same file, the second call returns false, writes nothing and leaves the
\* manifest with the text the first call left.
C1_AddTwice ==
    (LastIsAdd /\ prev.op = "add" /\ prev.file = last.file)
        => (~last.ret /\ ~last.wrote /\ content = last.pre)

\* C2: remove is idempotent.  When removeFromCMake is called twice in a row for
\* the same file, the second call returns false, writes nothing and leaves
\* the manifest with the text the first call left.
C2_RemoveTwice ==
    (LastIsRemove /\ prev.op = "remove" /\ prev.file = last.file)
        => (~last.ret /\ ~last.wrote /\ content = last.pre)

\* C3: round trip.  On a manifest that holds the file's block, addToCMake
\* followed by removeFromCMake of the same file leaves the block with the
\* entries it had before the add.
C3_AddThenRemove ==
    (LastIsRemove /\ prev.op = "add" /\ prev.file = last.file
        /\ Locatable(prev.pre, LastName))
        => BlockEntries(content, LastName) = BlockEntries(prev.pre, LastName)

\* The span createSetRegex / createIncludeDirectoriesRegex located in the text
\* the latest call read, and the block that call rebuilt.
LastMatch ==
    IF last.op \in {"add", "remove"} THEN MatchSet(last.pre, LastName)
    ELSE MatchInclude(last.pre)

LastEntries == NormalizeBlock(Group1(last.pre, LastMatch))

LastRebuilt ==
    CASE last.op = "add" -> AddNewBlock(LastName, LastEntries, LastQuoted)
      [] last.op = "remove" ->
            RemoveNewBlock(LastName, FilterOut(LastEntries, LastQuoted))
      [] last.op = "addInclude" ->
            IncludeAddNewBlock(LastEntries, IncludeEntry(last.file))
      [] OTHER ->
            IncludeRemoveNewBlock(FilterOut(LastEntries, IncludeEntry(last.file)))

\* The latest call was an add or remove of a file or a directory that found
\* its block and wrote the manifest.
LastRewroteBlock ==
    /\ last.op \in {"add", "remove", "addInclude", "removeInclude"}
    /\ last.wrote
    /\ LastMatch.index > 0

\* C4: span isolation.  Whenever an add or remove of a file or a directory
\* rewrites a located block, the manifest afterwards is the text before the
\* block's first character, the rebuilt block, and the text behind the
\* block's closing bracket.
C4_SpanIsolation ==
    LastRewroteBlock
        => content = Before(last.pre, LastMatch.index) \o LastRebuilt
                        \o From(last.pre, LastMatch.close + 1)

\* C5: order preservation.  After addToCMake returned true the located block's
\* entries are the entries it had before, in their order, followed by the
\* new entry; after two such calls in a row on one block the two new entries
\* are its last two, in the order of the calls.
C5_AppendedLast ==
    (LastIsAdd /\ last.ret)
        => /\ BlockEntries(content, LastName)
                = Append(BlockEntries(last.pre, LastName), LastQuoted)
           /\ (prev.op = "add" /\ prev.ret /\ GetTargetVariable(prev.file) = LastName)
                => BlockEntries(content, LastName)
                    = BlockEntries(prev.pre, LastName)
                        \o <<QuotedRelativePath(prev.file), LastQuoted>>

\* The latest call was an addToCMake whose entry the block already held, or a
\* removeFromCMake whose entry the block did not hold or whose block is
\* absent.
LastIsNoOp ==
    \/ /\ LastIsAdd
       /\ Locatable(last.pre, LastName)
       /\ Includes(BlockEntries(last.pre, LastName), LastQuoted)
    \/ /\ LastIsRemove
       /\ ~Includes(BlockEntries(last.pre, LastName), LastQuoted)

\* C6: no mutation on a no-op.  A call that is a no-op returns false, issues
\* no write and leaves the manifest's text as it was.
C6_NoOpWritesNothing ==
    LastIsNoOp => (~last.ret /\ ~last.wrote /\ content = last.pre)

\* Both kinds of no-op happened in a row: an add of an entry the block held,
\* then a remove of an entry the block does not hold.
C6_Witness ==
    /\ LastIsNoOp /\ LastIsRemove /\ Locatable(last.pre, LastName)
    /\ prev.op = "add" /\ ~prev.ret
    /\ Includes(BlockEntries(prev.pre, GetTargetVariable(prev.file)),
                QuotedRelativePath(prev.file))

\* The names of the set() variables the mapping knows.
Names == {m[2] : m \in setFileMapping}

\* The latest call was a removeFromCMake that removed the block's last
\* entries.
LastEmptiedBlock ==
    /\ LastIsRemove /\ last.ret
    /\ FilterOut(BlockEntries(last.pre, LastName), LastQuoted) = <<>>

\* The empty shell set(NAME\n) stands where the block the latest call located
\* started.
ShellInPlace ==
    /\ MatchSet(content, LastName).index = MatchSet(last.pre, LastName).index
    /\ Matched(content, MatchSet(content, LastName))
            = SET_OPEN \o LastName \o <<"\n", ")">>

\* C7: removal never deletes a block.  Every block that was locatable before a
\* removeFromCMake call is locatable after it, so it is after any sequence of
\* such calls; and a call that removes the last entries leaves the empty
\* shell set(NAME\n) in the block's place.
C7_BlockSurvivesRemoval ==
    LastIsRemove
        => /\ \A name \in Names :
                Locatable(last.pre, name) => Locatable(content, name)
           /\ LastEmptiedBlock => ShellInPlace

\* A removeFromCMake emptied a block that another removeFromCMake had shortened
\* before.
C7_Witness ==
    /\ LastEmptiedBlock /\ ShellInPlace
    /\ prev.op = "remove" /\ prev.ret
    /\ GetTargetVariable(prev.file) = LastName

LooseCloses(s, open) ==
    {p \in 1..Len(s) :
        /\ s[p] = ")"
        /\ \E i \in 1..p :
              /\ StartsWithAt(s, i, open)
              /\ i + Len(open) < p
              /\ \A k \in (i + Len(open))..(p - 1) : s[k] # ")"}

\* Where createMissingSetBlocks is to insert, by the priority of the claim:
\* behind the last loose set( ... ), else behind the first project( ... ),
\* else at the top.
ExpectedInsertPosition(s) ==
    IF LooseCloses(s, SET_OPEN) # {} THEN Max(LooseCloses(s, SET_OPEN)) + 1
    ELSE IF LooseCloses(s, PROJECT_OPEN) # {} THEN Min(LooseCloses(s, PROJECT_OPEN)) + 1
    ELSE 1

\* The text s with a non-empty text inserted before position pos gives t, and
\* the inserted text starts a set( block or the blank lines before one.
InsertedAt(s, t, pos) ==
    /\ Len(t) > Len(s)
    /\ Before(t, pos) = Before(s, pos)
    /\ From(t, pos + (Len(t) - Len(s))) = From(s, pos)
    /\ \/ StartsWithAt(t, pos, SET_OPEN)
       \/ StartsWithAt(t, pos, <<"\n", "\n">> \o SET_OPEN)

C10_CreateThenAdd ==
    /\ last.op = "create"
            => /\ \A i \in 1..Len(last.names) : Locatable(content, last.names[i])
               /\ CheckMissingSetBlocks(content, last.sel, <<>>) = <<>>
    /\ (LastIsAdd /\ prev.op = "create" /\ Includes(prev.sel, last.file)
            /\ Includes(prev.names, LastName))
            => (last.ret /\ BlockEntries(content, LastName) = <<LastQuoted>>)

\* The workspace folder of the walk, and the directories from the start
\* directory up to it: the start directory and its ancestors inside the
\* folder, the folder included.
FoundFolder == GetWorkspaceFolder(disk.folders, disk.startPath)

UpToWorkspaceRoot ==
    IF FoundFolder = <<>> THEN {}
    ELSE {d \in TreeDirs : Contains(d, disk.startPath) /\ Contains(FoundFolder, d)}

\* Whether cmakeFiles lists the manifests of these directories, each once,
\* the deeper directory first.
ListsNearestFirst(cmakeFiles, dirs) ==
    /\ {cmakeFiles[i] : i \in 1..Len(cmakeFiles)}
            = {PathJoin(d, MANIFEST_NAME) : d \in dirs} \cap disk.files
    /\ \A i, j \in 1..Len(cmakeFiles) : i < j => Len(cmakeFiles[i]) > Len(cmakeFiles[j])

\* C11: findCMakeLists returns the manifests of the start directory and of
\* its ancestors up to and including the workspace folder, nearest first,
\* and none from a directory outside the workspace folder.
C11_ManifestsUpToRoot ==
    found.done => ListsNearestFirst(found.cmakeFiles, UpToWorkspaceRoot)

\* The text addIncludeDirectory is to write on a manifest without an include
\* block: the new block with the entry behind the first project( ... ) when
\* there is one, else on top.
IncludeBlockWith(entry) == INCLUDE_OPEN \o INDENT \o entry \o <<"\n", ")">>

ExpectedIncludeCreate(s, entry) ==
    IF LooseCloses(s, PROJECT_OPEN) # {}
    THEN LET pos == Min(LooseCloses(s, PROJECT_OPEN)) + 1
         IN Before(s, pos) \o <<"\n", "\n">> \o IncludeBlockWith(entry) \o From(s, pos)
    ELSE IncludeBlockWith(entry) \o <<"\n", "\n">> \o s

\* The latest call was an addIncludeDirectory on a manifest in which
\* createIncludeDirectoriesRegex locates no block.
LastCreatedInclude == last.op = "addInclude" /\ MatchInclude(last.pre).index = 0

\* C12: addIncludeDirectory on a manifest without an include block returns
\* true and writes the block with the new entry behind project( ... ) when
\* there is one and else on top; a second call for the same directory right
\* after it returns false and writes nothing.
C12_IncludeCreatedInline ==
    /\ LastCreatedInclude
            => /\ last.ret /\ last.wrote
               /\ content = ExpectedIncludeCreate(last.pre, IncludeEntry(last.file))
    /\ (last.op = "addInclude" /\ prev.op = "addInclude" /\ prev.file = last.file
            /\ MatchInclude(prev.pre).index = 0)
            => (~last.ret /\ ~last.wrote /\ content = last.pre)

\* The places of s at which a block for name starts: the head of the block
\* expression matches there and a closing bracket follows.
SetBlockStarts(s, name) ==
    {j \in 1..Len(s) :
        /\ SetHeadEnd(s, j, name) > 0
        /\ FirstClose(s, SetHeadEnd(s, j, name)) > 0}

\* The closing bracket of the block that starts at j, and its entries.
BlockCloseAt(s, j, name) == FirstClose(s, SetHeadEnd(s, j, name))

EntriesAt(s, j, name) ==
    NormalizeBlock(SubSeq(s, SetHeadEnd(s, j, name), BlockCloseAt(s, j, name) - 1))

\* The first block for name in file order, where it ends, and its entries.
FirstStart(s, name) == Min(SetBlockStarts(s, name))

FirstEnd(s, name) == BlockCloseAt(s, FirstStart(s, name), name)

FirstEntries(s, name) == EntriesAt(s, FirstStart(s, name), name)

\* The blocks for name that start behind the first one, and the entries they
\* hold.
LaterStarts(s, name) == {j \in SetBlockStarts(s, name) : j > FirstEnd(s, name)}

LaterEntries(s, name) ==
    UNION {{EntriesAt(s, j, name)[i] : i \in 1..Len(EntriesAt(s, j, name))} :
              j \in LaterStarts(s, name)}

\* The latest call was an addToCMake or removeFromCMake on a manifest with two
\* blocks or more for the file's name.
LastOnDuplicate ==
    /\ last.op \in {"add", "remove"} /\ ~last.threw
    /\ SetBlockStarts(last.pre, LastName) # {}
    /\ LaterStarts(last.pre, LastName) # {}

\* The text of s from position i of t's length before s's end on: s ends
\* with t.
EndsWith(s, t) == Len(s) >= Len(t) /\ From(s, Len(s) - Len(t) + 1) = t

LastLackedMapping ==
    /\ cfgLast.op \in {"add", "remove"}
    /\ \/ Falsy(GetSetFileMapping(cfgLast.before))
       \/ ToLowerCase(ExtName(cfgLast.file)) \notin Keys(GetSetFileMapping(cfgLast.before).v)

\* C14: without a mapping for the file's extension, or without any mapping,
\* addToCMake and removeFromCMake throw a configuration error that names
\* the extension, and the call does not write the manifest.
C14_ConfigurationErrorNamesExtension ==
    LastLackedMapping
        => /\ cfgLast.out.threw
           /\ cfgLast.error.names = <<ToLowerCase(ExtName(cfgLast.file))>>
           /\ ~cfgLast.out.wrote /\ content = cfgLast.pre

\* The extensions the README advertises, with the groups package.json
\* documents for them.
Advertised == {X_CPP, X_HPP, X_H, X_HXX, X_CXX, X_CC}

\* A file name with this extension.
FileOf(ext) == <<"f">> \o ext

\* The elements of a list.
Range(seq) == {seq[i] : i \in 1..Len(seq)}

\* C18: after an activation that found no workspace values, the mapping and
\* the extension list in the workspace cover the six advertised extensions
\* with their documented groups and a file of each of them passes
\* handleFileSelection; a workspace value that was present is kept.
C18_SeedCoversAdvertised ==
    cfgLast.op = "activate"
        => /\ (cfgLast.before.mapping = Absent /\ cfgLast.before.extensions = Absent)
                => /\ ~Falsy(settings.mapping) /\ ~Falsy(settings.extensions)
                   /\ {m \in setFileMapping : m[1] \in Advertised}
                         \subseteq settings.mapping.v
                   /\ Advertised \subseteq Range(settings.extensions.v)
                   /\ \A ext \in Advertised :
                         HandleFileSelection(GetSetFileMapping(settings), <<FileOf(ext)>>)
                            .mappedFiles = <<FileOf(ext)>>
           /\ ~Falsy(cfgLast.before.mapping) => settings.mapping = cfgLast.before.mapping
           /\ ~Falsy(cfgLast.before.extensions)
                => settings.extensions = cfgLast.before.extensions

\* The files of a selection whose lower-cased extension the default mapping
\* has an entry for, in the selection's order.
KeptFiles(sel) ==
    LET Keep(f) == IsMapped(ToLowerCase(ExtName(f))) IN SelectSeq(sel, Keep)

\* C13: handleFileSelection keeps the selected files whose lower-cased
\* extension is a key of the mapping, in the order of the selection; when
\* none is left it warns and the command ends having read and written no
\* manifest.
C13_OnlyMappedFilesKept ==
    \A h \in Handlers :
        handlers[h].kind \in {"add", "remove"}
            => /\ handlers[h].files = KeptFiles(handlers[h].selection)
               /\ handlers[h].warned <=> KeptFiles(handlers[h].selection) = <<>>
               /\ handlers[h].warned
                    => /\ handlers[h].pc = "done"
                       /\ ~handlers[h].read
                       /\ ~handlers[h].wrote

\* One command ended on a selection without a mapped file while another
\* went through with the two mapped files of a selection of three.
C13_Witness ==
    \E h, g \in Handlers :
        /\ handlers[h].kind = "add" /\ handlers[h].warned /\ handlers[h].pc = "done"
        /\ handlers[g].kind = "remove" /\ handlers[g].selection = <<F_X, F_T, F_B>>
        /\ handlers[g].files = <<F_X, F_B>> /\ handlers[g].pc = "done"
        /\ handlers[g].read

\* C15: no handler has written a manifest while a prompt of its flow (the
\* quick pick, 'Create', the deletion prompt's 'Yes') was unanswered or
\* dismissed, so nothing is written after a dismissal; an add command
\* whose prompt was dismissed has written nothing at all.
C15_NoWriteWithoutConfirmation ==
    \A h \in Handlers :
        /\ ~handlers[h].wroteUnconfirmed
        /\ (handlers[h].dismissed /\ handlers[h].kind \in {"add", "addOne"})
              => ~handlers[h].wrote

\* The watcher removed a file, offered another manifest and had its second
\* quick pick dismissed; an add command found a block missing and had its
\* 'Create' prompt dismissed.
C15_Witness ==
    \E h, g \in Handlers :
        /\ handlers[h].kind = "watch" /\ handlers[h].wrote /\ handlers[h].dismissed
        /\ handlers[g].kind = "add" /\ handlers[g].missing # <<>>
        /\ handlers[g].dismissed /\ handlers[g].pc = "done"

\* The add or remove command h is in or behind its loop.
InBatch(h) ==
    /\ handlers[h].kind \in {"add", "remove"}
    /\ handlers[h].pc \in {"loop", "report", "done"}
    /\ "pick" \in handlers[h].answered
    /\ ~handlers[h].dismissed

\* C16: a batch visits its files once each in the order of the selection
\* whatever the calls return, when it reports every file is counted once
\* as added (removed) or as already present (not found), and the count of
\* added files is the number of entries its calls put into the manifest.
C16_BatchTallies ==
    \A h \in Handlers :
        InBatch(h)
            => LET hd == handlers[h]
                   visited == Len(hd.files) - Len(hd.todo)
               IN /\ hd.todo = SubSeq(hd.files, visited + 1, Len(hd.files))
                  /\ hd.addedFiles + hd.existingFiles + hd.removedFiles
                        + hd.notFoundFiles = visited
                  /\ hd.pc \in {"report", "done"} => visited = Len(hd.files)
                  /\ hd.kind = "add" => hd.addedFiles = hd.inserted

\* C19: no handler is suspended inside an operation between its read of
\* the manifest and its write, and once all handlers have ended every
\* entry that was added and not removed since occurs in the manifest.
C19_NoLostUpdate ==
    /\ \A h \in Handlers : handlers[h].pc # "confirmOne"
    /\ (\A h \in Handlers : handlers[h].pc \in {"idle", "done"})
          => \A entry \in live : Occurrences(content, entry) > 0

\* The distinct elements of a list in the order of their first occurrence.
RECURSIVE Distinct(_)
Distinct(seq) ==
    IF seq = <<>> THEN <<>>
    ELSE LET front == Distinct(SubSeq(seq, 1, Len(seq) - 1))
         IN IF seq[Len(seq)] \in Range(front) THEN front
            ELSE Append(front, seq[Len(seq)])

\* C17: a delete event restarts the window of 500 ms; an event that comes
\* less than 500 ms after the one before joins the events that wait for a
\* prompt; the prompt is shown when 500 ms have passed since the last event
\* and not before, once for all events since the prompt before, and
\* carries their distinct paths.
C17_DeletionsCoalesced ==
    /\ deleteTimer.armed => watch.sinceEvent + deleteTimer.remaining = DEBOUNCE_MS
    /\ (~watch.disposed /\ watch.since # <<>>) => deleteTimer.armed
    /\ (watch.op = "delete" /\ watch.events > 1 /\ watch.gap < DEBOUNCE_MS)
          => Len(watch.since) > 1
    /\ watch.op = "prompt"
          => /\ watch.sinceEvent >= DEBOUNCE_MS
             /\ watch.files = Distinct(watch.batch)
             /\ watch.since = <<>> /\ deletedFiles = <<>>

\* A first prompt for three events that came less than 500 ms apart, two
\* of them for the same path.
C17_Witness ==
    /\ watch.op = "prompt"
    /\ watch.batch = <<F_B, F_A, F_B>>
    /\ watch.files = <<F_B, F_A>>
    /\ watch.prompts = 1

\* The names of the blocks the files of a selection go to, in the order of
\* the selection.
TargetVariables(sel) == [i \in 1..Len(sel) |-> GetTargetVariable(sel[i])]

\* The names a selection needs and the text s has no block for, each once,
\* in the order of their first file.
MissingNames(s, sel) ==
    LET Lacks(name) == ~Locatable(s, name)
    IN Distinct(SelectSeq(TargetVariables(sel), Lacks))

\* What createMissingSetBlocks put into the text: the characters of the new
\* text from the insertion point on that the old text does not account for.
LastInserted ==
    SubSeq(content, ExpectedInsertPosition(last.pre),
           ExpectedInsertPosition(last.pre) + (Len(content) - Len(last.pre)) - 1)

\* A text without its line ends.
Unbroken(s) == LET Inline(c) == c # "\n" IN SelectSeq(s, Inline)

\* Empty blocks for these names, one behind the other.
RECURSIVE Shells(_)
Shells(names) ==
    IF names = <<>> THEN <<>>
    ELSE SET_OPEN \o Head(names) \o <<")">> \o Shells(Tail(names))

\* C21: one createMissingSetBlocks writes, at the one insertion point, an
\* empty block for each name the selection needs and the manifest lacks,
\* each name once, in the order in which the names first come up in the
\* selection, with nothing but line ends between and around them.
C21_MissingBlocksTogether ==
    last.op = "create"
        => /\ last.wrote
           /\ last.names = MissingNames(last.pre, last.sel)
           /\ InsertedAt(last.pre, content, ExpectedInsertPosition(last.pre))
           /\ Unbroken(LastInserted) = Shells(MissingNames(last.pre, last.sel))

\* Blocks for SOURCES and HEADERS were created in one call behind an anchor,
\* for a selection in which two files go to SOURCES and two to HEADERS.
C21_Witness ==
    /\ last.op = "create"
    /\ last.sel = <<F_Z, F_Y, F_A, F_X>>
    /\ last.names = <<SOURCES, HEADERS>>
    /\ ExpectedInsertPosition(last.pre) > 1

\* The closing bracket of the last block createMissingSetBlocks put in.
LastInsertedClose ==
    ExpectedInsertPosition(last.pre) - 1
        + Max({i \in 1..Len(LastInserted) : LastInserted[i] = ")"})

\* C22: behind an anchor the new blocks come after two line ends and two
\* line ends part them from the text that follows; at the top of a manifest
\* without anchor they start the file and a pair of line ends comes between
\* them and the old text.
C22_BlockPadding ==
    last.op = "create"
        => IF ExpectedInsertPosition(last.pre) > 1
           THEN /\ StartsWithAt(content, ExpectedInsertPosition(last.pre),
                                <<"\n", "\n">> \o SET_OPEN)
                /\ From(last.pre, ExpectedInsertPosition(last.pre)) # <<>>
                      => StartsWithAt(content, LastInsertedClose + 1, <<"\n", "\n">>)
           ELSE /\ StartsWithAt(content, 1, SET_OPEN)
                /\ From(content, LastInsertedClose + 1)
                      = <<"\n", "\n", "\n">> \o last.pre

\* C23: for a start path in no workspace folder findCMakeLists returns the
\* empty list and asks fs.existsSync about no directory, and the command
\* shows no quick pick, can only go on to report 'No CMakeLists.txt found!',
\* and ends with that message and without a manifest to run a helper on.
C23_OutsideWorkspace ==
    (found.done /\ FoundFolder = <<>>)
        => /\ found.cmakeFiles = <<>>
           /\ found.inspected = {}
           /\ found.items = <<>>
           /\ found.target = <<>>
           /\ found.stage \in {"found", "ended"}
           /\ found.stage = "found" => ENABLED NoneFound
           /\ found.stage = "ended" => found.message = NO_CMAKE_FOUND

\* A command on a start directory that holds a manifest, in a workspace
\* that has folders but none around the directory, has ended.
C23_Witness ==
    /\ found.stage = "ended"
    /\ FoundFolder = <<>>
    /\ disk.folders # {}
    /\ PathJoin(disk.startPath, MANIFEST_NAME) \in disk.files

\* C24: a command on a directory D offers the manifests of D and of its
\* ancestors up to the workspace folder, D's own first when D holds one,
\* whenever there is any of them.
C24_DirectoryOwnManifest ==
    (disk.command = "directory" /\ found.stage \in {"pick", "ended"})
        => IF UpToWorkspaceRoot \cap {Dirname(f) : f \in disk.files} = {}
           THEN found.items = <<>>
           ELSE /\ ListsNearestFirst(found.items, UpToWorkspaceRoot)
                /\ PathJoin(disk.startPath, MANIFEST_NAME) \in disk.files
                      => found.items[1] = PathJoin(disk.startPath, MANIFEST_NAME)

\* The files of a sequence.
Members(seq) == {seq[i] : i \in 1..Len(seq)}

\* Whether the watcher's flow hd stands in a round of its loop as the claim
\* has it: the files still to attempt are the rest of the round's files,
\* every file visited was removed or is listed as not found, and no file
\* removed so far is to be attempted or listed as not found.
RoundInOrder(hd) ==
    LET visited == Len(hd.files) - Len(hd.todo)
    IN /\ hd.todo = SubSeq(hd.files, visited + 1, Len(hd.files))
       /\ hd.removedFiles + Len(hd.notFound) = visited
       /\ Members(hd.notFound) \subseteq Members(SubSeq(hd.files, 1, visited))
       /\ (Members(hd.todo) \cup Members(hd.notFound)) \cap hd.processedFiles = {}

\* What the claim asks of one step of the watcher's flow h.
RetryStep(h) ==
    LET hd == handlers[h]
        next == handlers'[h]
    IN (hd.kind = "watch" /\ next # hd)
        => /\ next.files # hd.files
                 => (hd.pc = "retry" /\ next.pc = "pick" /\ next.files = hd.notFound)
           /\ next.pc \in {"loop", "retry"} => RoundInOrder(next)
           /\ hd.pc = "loop"
                 => /\ next.todo = Tail(hd.todo)
                    /\ Head(hd.todo) \notin hd.processedFiles
                    /\ next.processedFiles \subseteq hd.processedFiles \cup {Head(hd.todo)}
                    /\ next.pc = "retry" <=> (next.todo = <<>> /\ next.notFound # <<>>)
                    /\ (next.todo = <<>> /\ next.notFound = <<>>)
                          => next.pc \in {"report", "done"}
           /\ hd.pc # "loop" => next.processedFiles = hd.processedFiles
           /\ (hd.pc = "retry" /\ next.pc # "pick") => next.pc \in {"report", "done"}
           /\ (hd.pc = "pick" /\ next.pc # "loop") => next.pc = "done"
           /\ AnswerRetry(h, "Skip") => next.pc \in {"report", "done"}
           /\ SelectCMakeFile(h, TRUE, "undefined") => next.pc = "done"

\* C25: in the watcher's flow a retry round works on exactly the files the
\* round before left as not found, each attempted once and none of them
\* removed before; the loop is left when a round leaves no file not found,
\* on 'Skip', and when the manifest picker is cancelled.
C25_RetryRounds == [][\A h \in Handlers : RetryStep(h)]_vars

\* A second round is about to attempt the one file the first round did not
\* find, after the first round removed the other.
C25_Witness ==
    \E h \in Handlers :
        /\ handlers[h].kind = "watch"
        /\ handlers[h].pc = "loop"
        /\ handlers[h].selection = <<F_A, F_B>>
        /\ handlers[h].processedFiles # {}
        /\ Len(handlers[h].files) = 1
        /\ handlers[h].todo = handlers[h].files

\* C29: the manifest never holds two blocks of one group name, whatever
\* the handlers that ran and however their steps were interleaved.
C29_OneBlockPerName ==
    \A name \in {SOURCES, HEADERS} : Cardinality(SetBlockStarts(content, name)) <= 1

\* C26: once the watcher is disposed of no deletion prompt is raised any
\* more, and once the link provider is disposed of no call that waits for
\* its timer goes on to scan.
C26_TimersCancelledOnDispose ==
    [][/\ watch.disposed => watch'.prompts = watch.prompts
       /\ provider.disposed
             => \A c \in Requests :
                   requests[c].state = "waiting"
                      => \/ requests'[c].state = "waiting"
                         \/ requests'[c].by = "cancelled"]_vars

\* C27: a call of provideDocumentLinks on a text equal to lastDocument
\* resolves at once to the cached links as they are and leaves the timer
\* and the cache alone; a call on any other text waits for a timer of its
\* own, which replaces the one that ran.
C27_RescanOnlyOnChange ==
    [][\A c \in Requests, d \in Documents :
          ProvideDocumentLinks(c, d)
             => IF docs[d] = provider.lastDocument
                THEN /\ requests'[c].state = "resolved"
                     /\ requests'[c].by = "cache"
                     /\ requests'[c].result = provider.cachedLinks
                     /\ provider' = provider
                ELSE /\ requests'[c].state = "waiting"
                     /\ requests'[c].currentContent = docs[d]
                     /\ provider'.timer = c
                     /\ provider'.cachedLinks = provider.cachedLinks
                     /\ provider'.lastDocument = provider.lastDocument]_vars

\* The second call was answered from the cache with the links that the
\* scan of the first call had found.
C27_Witness ==
    /\ requests[2].by = "cache"
    /\ requests[2].result # <<>>
    /\ requests[1].by = "scanned"

\* The occurrences of quoted tokens in a text: the places of an opening and
\* a closing quote with no quote between them, the quotes before them
\* paired off.
QuotePairs(s) ==
    {pair \in (1..Len(s)) \X (1..Len(s)) :
        /\ pair[1] < pair[2]
        /\ IsQuote(s[pair[1]])
        /\ IsQuote(s[pair[2]])
        /\ \A k \in (pair[1] + 1)..(pair[2] - 1) : ~IsQuote(s[k])
        /\ Cardinality({k \in 1..(pair[1] - 1) : IsQuote(s[k])}) % 2 = 0}

\* The occurrences whose token names a file of the workspace.
MatchedPairs(s) ==
    {pair \in QuotePairs(s) : SubSeq(s, pair[1] + 1, pair[2] - 1) \in WorkspaceFiles}

\* C28: the links of a finished scan are as many as the occurrences of
\* tokens that name a file of the workspace, and their ranges are the
\* places of these occurrences between their quotes (as offsets from 0,
\* the end excluded), each occurrence with a range of its own.
C28_OneLinkPerOccurrence ==
    \A c \in Requests :
        requests[c].by = "scanned"
            => /\ Len(requests[c].result) = Cardinality(MatchedPairs(requests[c].text))
               /\ {<<requests[c].result[i].start, requests[c].result[i].end>> :
                       i \in 1..Len(requests[c].result)}
                     = {<<pair[1], pair[2] - 1>> : pair \in MatchedPairs(requests[c].text)}

\* C30: every call of provideDocumentLinks that waits for its timer or for
\* a search resolves in the end.
C30_EveryCallResolves ==
    \A c \in Requests :
        (requests[c].state \in {"waiting", "scanning"}) ~> (requests[c].state = "resolved")

\* The links a scan that runs through gives for a text: the link of each of
\* its tokens that names a file of the workspace, in the order of the tokens.
ScanResult(s) ==
    LET tokens == ScanTokens(s, 1)
        Named(token) == FindFiles(FileName(s, token)) # {}
        named == SelectSeq(tokens, Named)
    IN [i \in 1..Len(named) |-> DocumentLink(s, named[i])]

\* The links of a full scan of each of the documents' texts.
ScanResultOf == [t \in LinkTexts |-> ScanResult(t)]

\* C31: after every step the cached links are the links of a scan of the
\* text held as lastDocument, and a call whose token is cancelled leaves
\* lastDocument and the cached links as they are when it resolves.
C31_CacheCoherent ==
    [][/\ provider'.cachedLinks = ScanResultOf[provider'.lastDocument]
       /\ \A c \in Requests :
             (requests[c].cancelled /\ requests'[c].state = "resolved")
                => /\ provider'.lastDocument = provider.lastDocument
                   /\ provider'.cachedLinks = provider.cachedLinks]_vars

\* C32: a watcher's flow that removed a file and has ended has made its
\* offer to open the manifest and has thrown nothing.
C32_OfferAfterRemoval ==
    \A h \in Handlers :
        (handlers[h].kind = "watch" /\ handlers[h].pc = "done"
            /\ handlers[h].processedFiles # {})
            => handlers[h].offer = "made"

\* The entries of a list that are not e, in their order.
Without(entries, e) == LET Other(x) == x # e IN SelectSeq(entries, Other)

\* C33: after removeFromCMake has returned true for a file, the block of
\* its name holds the entries it held before without the file's entry, in
\* their order, and the file's entry nowhere among them.
C33_AllDuplicatesRemoved ==
    (LastIsRemove /\ last.ret)
        => /\ ~Includes(BlockEntries(content, LastName), LastQuoted)
           /\ BlockEntries(content, LastName)
                 = Without(BlockEntries(last.pre, LastName), LastQuoted)

RECURSIVE Flatten(_)
Flatten(seqs) == IF seqs = <<>> THEN <<>> ELSE Head(seqs) \o Flatten(Tail(seqs))

\* C34: every delete event the watcher saw is in exactly one prompt's batch
\* or waits for one with a timer running: the batches of the prompts shown,
\* followed by the events that wait, are the events seen, in their order;
\* each prompt names the distinct paths of its batch; an event that waits
\* has a running timer, so it is not lost.
C34_EveryEventOnce ==
    /\ Flatten(watch.batches) \o watch.since = watch.log
    /\ \A k \in 1..Len(watch.batches) :
          watch.batches[k] # <<>> /\ watch.shown[k] = Distinct(watch.batches[k])
    /\ watch.since # <<>> => deleteTimer.armed

\* C34, amended: as above, for a watcher that is not disposed; dispose()
\* clears the timer, and the events that wait then get no prompt.
C34_EveryEventOnceUntilDisposed ==
    /\ Flatten(watch.batches) \o watch.since = watch.log
    /\ \A k \in 1..Len(watch.batches) :
          watch.batches[k] # <<>> /\ watch.shown[k] = Distinct(watch.batches[k])
    /\ (watch.since # <<>> /\ ~watch.disposed) => deleteTimer.armed
    /\ (watch.since # <<>> /\ watch.disposed) => ~deleteTimer.armed

\* A second prompt, shown while the first is still open, for events that
\* came while the first was open and waited when the watcher was rebuilt.
C34_Witness ==
    /\ watch.op = "prompt"
    /\ watch.prompts = 2
    /\ watch.open = 2
    /\ watch.whileOpen
    /\ watch.carried # <<>>
    /\ watch.batch = watch.carried
    /\ ~watch.disposed

\* C35: the block an add, a remove or a create has written is read back as
\* written: the block pattern for the name finds it as the first block of
\* the name, where the block was, and the entries extracted from it are
\* the entries the call put together (the earlier entries and the new one;
\* the earlier entries without the one removed; none for a created block).
C35_WrittenBlockReadable ==
    /\ (LastIsAdd /\ last.ret)
          => /\ MatchSet(content, LastName).index = MatchSet(last.pre, LastName).index
             /\ BlockEntries(content, LastName)
                   = Append(BlockEntries(last.pre, LastName), LastQuoted)
    /\ (LastIsRemove /\ last.ret)
          => /\ MatchSet(content, LastName).index = MatchSet(last.pre, LastName).index
             /\ BlockEntries(content, LastName)
                   = Without(BlockEntries(last.pre, LastName), LastQuoted)
    /\ last.op = "create"
          => \A i \in 1..Len(last.names) :
                /\ Locatable(content, last.names[i])
                /\ BlockEntries(content, last.names[i]) = <<>>

\* The directory the loop of findCMakeLists stood at when it ended.
WalkEnd ==
    IF found.walk = <<>> THEN disk.startPath ELSE Dirname(found.walk[Len(found.walk)])

\* C36: the loop of findCMakeLists ends for every start path: it begins at
\* the start path, each iteration goes to the parent of the directory
\* before, a strictly shorter path, so the iterations are no more than the
\* start path is long and no directory is visited twice; every directory
\* visited lies in the workspace folder and has its manifest looked for,
\* and the loop ends at the file system's root or at the first directory
\* that does not lie in the workspace folder.
C36_WalkTerminates ==
    found.done
        => /\ Len(found.walk) <= Len(disk.startPath)
           /\ found.walk # <<>> => found.walk[1] = disk.startPath
           /\ \A i \in 1..(Len(found.walk) - 1) :
                 /\ found.walk[i + 1] = Dirname(found.walk[i])
                 /\ Len(found.walk[i + 1]) < Len(found.walk[i])
                 /\ Contains(found.walk[i + 1], found.walk[i])
           /\ \A i, j \in 1..Len(found.walk) : i < j => found.walk[i] # found.walk[j]
           /\ \A i \in 1..Len(found.walk) :
                 /\ Contains(FoundFolder, found.walk[i])
                 /\ found.walk[i] # ROOT
           /\ Range(found.walk) \subseteq found.inspected
           /\ \/ WalkEnd = ROOT
              \/ FoundFolder = <<>>
              \/ ~Contains(FoundFolder, WalkEnd)

\* A walk of four directories from /w/a/b/c that ends above the workspace
\* folder /w, which is not the root.
C36_Witness ==
    /\ found.done
    /\ Len(found.walk) = 4
    /\ found.walk[4] = FoundFolder
    /\ FoundFolder # ROOT
    /\ ~Contains(FoundFolder, WalkEnd)

====
